---------------------------- MODULE Spec2Model ----------------------------
(***************************************************************************)
(* A model of the cascade compiler front end: lexer (core/lexer.cc),       *)
(* recursive-descent parser (core/parser.cc), typechecker                  *)
(* (core/typechecker.cc) and the driver that chains them (driver.cc).      *)
(*                                                                         *)
(* A source file is a sequence of bytes.  A byte is written as a           *)
(* one-character string; the byte 0xFF is written "0xFF" and the NUL that  *)
(* terminates the std::string holding the file is written "NUL".  The      *)
(* model is the build in which plain char is signed (x86), so that the     *)
(* byte 0xFF and the value EOF narrowed to char are the same char.         *)
(* Positions are 0-based as in the code; a TLA+ sequence is 1-based, so    *)
(* the byte at position p is source[p + 1].  Lines and columns are not     *)
(* modelled: no token, node or error is ever compared through them.        *)
(***************************************************************************)
EXTENDS Integers, Sequences, FiniteSets, TLC

VARIABLES
    source,          \* driver: file.source(), the text of the file
    pc,              \* where the pipeline is: lex, parse, parsed, file_done,
                     \*   run, typecheck, exit, or aborted / undefined / hung
    m_pos,           \* lexer::impl::m_pos (and m_it - m_source.begin())
    m_starting_pos,  \* lexer::impl::m_starting_pos
    tokens,          \* lexer::impl::lex: the local vector `tokens`
    errs,            \* driver::parse(path, source): the local vector `errs`
    m_index,         \* parser_impl::m_index
    decls,           \* parser_impl::parse: the local vector `decls`
    has_module,      \* parser_impl::parse: the local flag `has_module`
    consume_at_end,  \* parser: consume() was called with is_at_end() true
    logged,          \* errors handed to util::logger::error, in order
    parsed,          \* driver::parse(files): the optional `parsed`, << >> if empty
    has_failed,      \* driver::parse(files): the local flag `has_failed`
    m_programs,      \* driver::m_programs
    type_errs,       \* driver::typecheck: the local vector `errs`
    typechecked,     \* driver::typecheck() was called
    exit_code,       \* what driver::run returned ("none" until it returns)
    decl_types,      \* typechecker: per const / static visited, its name, the
                     \*   type its initializer was given and ref.type().data()
    call_args,       \* a routine called on its own: its name and arguments
    call_result      \* what that routine returned

vars == << source, pc, m_pos, m_starting_pos, tokens, errs, m_index, decls,
           has_module, consume_at_end, logged, parsed, has_failed, m_programs,
           type_errs, typechecked, exit_code, decl_types, call_args,
           call_result >>

lexvars == << m_pos, m_starting_pos, tokens >>
parsevars == << m_index, decls, has_module, consume_at_end >>
drivervars == << logged, parsed, has_failed, m_programs, type_errs, typechecked,
                exit_code, decl_types >>
callvars == << call_args, call_result >>

-----------------------------------------------------------------------------
(* Characters                                                              *)

EOFchar == "0xFF"     \* (char)EOF: EOF is -1, which narrows to the byte 0xFF
NULchar == "NUL"      \* the terminator the std::string keeps after the text

DigitChars == {"0", "1", "2", "3", "4", "5", "6", "7", "8", "9"}
SpaceChars == {" ", "\n", "\t", "\r", "\f"}
AlphaChars == {"a", "b", "c", "d", "e", "f", "g", "h", "i", "j", "k", "l", "m", "n", "o", "p", "q", "r", "s", "t", "u", "v", "w", "x", "y", "z", "A", "B", "C", "D", "E", "F", "G", "H", "I", "J", "K", "L", "M", "N", "O", "P", "Q", "R", "S", "T", "U", "V", "W", "X", "Y", "Z"}

isdigit(c) == c \in DigitChars
isalpha(c) == c \in AlphaChars
isspace(c) == c \in SpaceChars

Min(a, b) == IF a <= b THEN a ELSE b

\* std::string_view::substr(pos, n): at most n bytes from position pos
substr(src, pos, n) == SubSeq(src, pos + 1, Min(pos + n, Len(src)))

-----------------------------------------------------------------------------
(* Tokens and errors                                                       *)

\* token::token: the length of a token is raw.size()
token(pos, kind, raw) == [kind |-> kind, pos |-> pos, len |-> Len(raw), raw |-> raw]

\* errors::token_error: code, the offending token, an optional note
token_error(code, tok, note) ==
    [code |-> code, origin |-> "token", kind |-> tok.kind, pos |-> tok.pos,
     len |-> tok.len, note |-> note]

\* errors::ast_error: code, the offending node, an optional note
ast_error(code, node, note) ==
    [code |-> code, origin |-> "ast", kind |-> node.kind, pos |-> node.pos,
     len |-> node.len, note |-> note]

\* util/keywords.cc: string_to_kind restricted to the keys an identifier-shaped
\* lexeme can have (the symbol spellings are never looked up)
string_to_kind ==
    <<"c","o","n","s","t">> :> "keyword_const" @@
    <<"s","t","a","t","i","c">> :> "keyword_static" @@
    <<"f","n">> :> "keyword_fn" @@
    <<"s","t","r","u","c","t">> :> "keyword_struct" @@
    <<"p","u","b">> :> "keyword_pub" @@
    <<"l","e","t">> :> "keyword_let" @@
    <<"m","u","t">> :> "keyword_mut" @@
    <<"l","o","o","p">> :> "keyword_loop" @@
    <<"w","h","i","l","e">> :> "keyword_while" @@
    <<"f","o","r">> :> "keyword_for" @@
    <<"i","n">> :> "keyword_in" @@
    <<"b","r","e","a","k">> :> "keyword_break" @@
    <<"c","o","n","t","i","n","u","e">> :> "keyword_continue" @@
    <<"r","e","t">> :> "keyword_ret" @@
    <<"a","s","s","e","r","t">> :> "keyword_assert" @@
    <<"m","o","d","u","l","e">> :> "keyword_module" @@
    <<"i","m","p","o","r","t">> :> "keyword_import" @@
    <<"a","s">> :> "keyword_as" @@
    <<"f","r","o","m">> :> "keyword_from" @@
    <<"e","x","p","o","r","t">> :> "keyword_export" @@
    <<"i","f">> :> "keyword_if" @@
    <<"t","h","e","n">> :> "keyword_then" @@
    <<"e","l","s","e">> :> "keyword_else" @@
    <<"a","n","d">> :> "keyword_and" @@
    <<"o","r">> :> "keyword_or" @@
    <<"x","o","r">> :> "keyword_xor" @@
    <<"n","o","t">> :> "keyword_not" @@
    <<"t","r","u","e">> :> "literal_bool" @@
    <<"f","a","l","s","e">> :> "literal_bool"

\* symbols that are only ever single char
single_char_symbols ==
    <<"[">> :> "symbol_openbracket" @@
    <<"]">> :> "symbol_closebracket" @@
    <<"@">> :> "symbol_at" @@
    <<".">> :> "symbol_dot" @@
    <<"{">> :> "symbol_openbrace" @@
    <<"}">> :> "symbol_closebrace" @@
    <<"(">> :> "symbol_openparen" @@
    <<")">> :> "symbol_closeparen" @@
    <<";">> :> "symbol_semicolon" @@
    <<",">> :> "symbol_comma"

\* symbols that are 2 characters, or start like a 2 character one
one_or_two_char_symbols ==
    <<"=">> :> "symbol_equal" @@
    <<":">> :> "symbol_colon" @@
    <<":",":">> :> "symbol_coloncolon" @@
    <<"*">> :> "symbol_star" @@
    <<"&">> :> "symbol_pound" @@
    <<"|">> :> "symbol_pipe" @@
    <<"^">> :> "symbol_caret" @@
    <<"+">> :> "symbol_plus" @@
    <<"-">> :> "symbol_hyphen" @@
    <<"/">> :> "symbol_forwardslash" @@
    <<"%">> :> "symbol_percent" @@
    <<"<">> :> "symbol_lt" @@
    <<"<","=">> :> "symbol_leq" @@
    <<">">> :> "symbol_gt" @@
    <<">","=">> :> "symbol_geq" @@
    <<">",">">> :> "symbol_gtgt" @@
    <<"<","<">> :> "symbol_ltlt" @@
    <<"=","=">> :> "symbol_equalequal" @@
    <<"!","=">> :> "symbol_bangequal" @@
    <<">",">","=">> :> "symbol_gtgtequal" @@
    <<"<","<","=">> :> "symbol_ltltequal" @@
    <<"&","=">> :> "symbol_poundequal" @@
    <<"|","=">> :> "symbol_pipeequal" @@
    <<"^","=">> :> "symbol_caretequal" @@
    <<"%","=">> :> "symbol_percentequal" @@
    <<"/","=">> :> "symbol_forwardslashequal" @@
    <<"*","=">> :> "symbol_starequal" @@
    <<"-","=">> :> "symbol_hyphenequal" @@
    <<"+","=">> :> "symbol_plusequal"

is_kind(raw) == raw \in DOMAIN string_to_kind
kind_from_string(raw) == string_to_kind[raw]

-----------------------------------------------------------------------------
(* Lexer: core/lexer.cc                                                    *)

\* m_it == m_source.end() ? EOF : m_it[1], returned as a char.  At the last
\* byte m_it[1] is the std::string's terminating NUL.
peek(src, pos) ==
    IF pos = Len(src) THEN EOFchar
    ELSE IF pos + 1 = Len(src) THEN NULchar
    ELSE src[pos + 2]

\* *m_it; at the end of the text that is the terminating NUL
current(src, pos) == IF pos < Len(src) THEN src[pos + 1] ELSE NULchar

is_at_end(src, pos) == peek(src, pos) = EOFchar

\* lex(): do { consume(); } while (std::isspace(current()));
RECURSIVE skip_whitespace(_, _)
skip_whitespace(src, pos) ==
    IF isspace(current(src, pos + 1)) THEN skip_whitespace(src, pos + 1) ELSE pos + 1

\* lex(), every branch but the white space one: update_starting() comes
\* first, so m_starting_pos is m_pos when the branch makes its token

\* lex(): while (!is_at_end() && current() != '\n') consume();
RECURSIVE skip_line(_, _)
skip_line(src, pos) ==
    IF ~is_at_end(src, pos) /\ current(src, pos) # "\n"
    THEN skip_line(src, pos + 1) ELSE pos

\* lex(): while (!is_at_end() && !(current() == '*' && peek() == '-')) consume();
RECURSIVE skip_block(_, _)
skip_block(src, pos) ==
    IF ~is_at_end(src, pos) /\ ~(current(src, pos) = "*" /\ peek(src, pos) = "-")
    THEN skip_block(src, pos + 1) ELSE pos

\* consume_digits(): while (!is_at_end() && (isdigit(current()) || current() == '.'))
RECURSIVE scan_digits(_, _)
scan_digits(src, pos) ==
    IF ~is_at_end(src, pos) /\ (isdigit(current(src, pos)) \/ current(src, pos) = ".")
    THEN scan_digits(src, pos + 1) ELSE pos

\* consume_identifier(): while (!is_at_end() && (isalpha || isdigit || '_'))
RECURSIVE scan_identifier(_, _)
scan_identifier(src, pos) ==
    IF /\ ~is_at_end(src, pos)
       /\ \/ isalpha(current(src, pos))
          \/ isdigit(current(src, pos))
          \/ current(src, pos) = "_"
    THEN scan_identifier(src, pos + 1) ELSE pos

\* consume_stringlike<C>(): the loop after the opening delimiter
RECURSIVE scan_stringlike(_, _, _)
scan_stringlike(src, pos, C) ==
    IF ~is_at_end(src, pos) /\ current(src, pos) # C
    THEN IF current(src, pos) = "\\" /\ peek(src, pos) = C
         THEN scan_stringlike(src, pos + 2, C)
         ELSE scan_stringlike(src, pos + 1, C)
    ELSE pos

\* a create_token that takes the position after the lexeme's first byte
create_token_late(start, kind, raw) == token(start + 1, kind, raw)

\* create_token(kind, raw): a token at m_starting_pos, which is `start`
create_token(start, kind, raw) == token(start, kind, raw)

\* consume_identifier(): the token for the lexeme [start, end)
consume_identifier(src, start, pos) ==
    LET end  == scan_identifier(src, pos)
        full == substr(src, start, end - start)
    IN  [pos |-> end,
         tok |-> create_token(start, IF is_kind(full) THEN kind_from_string(full)
                                     ELSE "identifier", full)]

\* consume_digits(): [pos, ok, tok, err]; ok is FALSE when it returns nullopt
consume_digits(src, start) ==
    LET end == scan_digits(src, start)
    IN  IF isalpha(current(src, end))
        THEN LET result == consume_identifier(src, start, end)
             IN  [pos |-> result.pos, ok |-> FALSE, tok |-> result.tok,
                  err |-> token_error("unexpected_tok", result.tok,
                                      "Did you leave out a space?")]
        ELSE LET tok == create_token(start, "literal_number",
                                     substr(src, start, end - start))
             IN  [pos |-> end, ok |-> TRUE, tok |-> tok,
                  err |-> token_error("none", tok, "")]

\* a consume_stringlike that returns the token of an unterminated literal
consume_stringlike_kept(src, start, C) ==
    LET end  == scan_stringlike(src, start + 1, C)
        kind == IF C = "'" THEN "literal_char" ELSE "literal_string"
        stop == IF is_at_end(src, end) THEN end ELSE end + 1
        tok  == create_token(start, kind, substr(src, start, stop - start))
    IN  [pos |-> stop, ok |-> TRUE, tok |-> tok, err |-> token_error("none", tok, "")]

\* consume_stringlike<C>(): [pos, ok, tok, err]
consume_stringlike(src, start, C) ==
    LET end  == scan_stringlike(src, start + 1, C)
        kind == IF C = "'" THEN "literal_char" ELSE "literal_string"
        code == IF C = "'" THEN "unterminated_char" ELSE "unterminated_str"
    IN  IF is_at_end(src, end)
        THEN LET tok == create_token(start, kind, substr(src, start, end - start))
             IN  [pos |-> end, ok |-> FALSE, tok |-> tok,
                  err |-> token_error(code, tok, "")]
        ELSE LET tok == create_token(start, kind,
                                     substr(src, start, end + 1 - start))
             IN  [pos |-> end + 1, ok |-> TRUE, tok |-> tok,
                  err |-> token_error("none", tok, "")]

\* The branch of the if / else-if chain in lex() that one iteration takes
lex_branch(src, pos) ==
    LET c == current(src, pos)
        n == peek(src, pos)
    IN  IF isspace(c) THEN "whitespace"
        ELSE IF c = "-" /\ n = "-" THEN "line_comment"
        ELSE IF c = "-" /\ n = "*" THEN "block_comment"
        ELSE IF isdigit(c) THEN "digits"
        ELSE IF isalpha(c) \/ c = "_" THEN "identifier"
        ELSE IF <<c>> \in DOMAIN single_char_symbols THEN "single_char"
        ELSE IF <<c, n>> \in DOMAIN one_or_two_char_symbols THEN "two_char"
        ELSE IF <<c>> \in DOMAIN one_or_two_char_symbols THEN "one_char"
        ELSE IF c = "\"" THEN "string"
        ELSE IF c = "'" THEN "char"
        ELSE "unknown"

InLexLoop(branch) ==
    /\ pc = "lex"
    /\ ~is_at_end(source, m_pos)
    /\ lex_branch(source, m_pos) = branch

LexWhitespace ==
    /\ InLexLoop("whitespace")
    /\ m_pos' = skip_whitespace(source, m_pos)
    /\ UNCHANGED << source, callvars, pc, m_starting_pos, tokens, errs, parsevars, drivervars >>

LexLineComment ==
    /\ InLexLoop("line_comment")
    /\ m_starting_pos' = m_pos
    /\ LET end == skip_line(source, m_pos + 2)
       IN  m_pos' = IF is_at_end(source, end) THEN end ELSE end + 1
    /\ UNCHANGED << source, callvars, pc, tokens, errs, parsevars, drivervars >>

LexBlockComment ==
    /\ InLexLoop("block_comment")
    /\ m_starting_pos' = m_pos
    /\ LET end == skip_block(source, m_pos + 2)
       IN  IF is_at_end(source, end)
           THEN /\ errs' = Append(errs,
                      token_error("unterminated_block_comment",
                                  create_token(m_starting_pos', "error", substr(source, m_pos, 2)),
                                  "did you leave out '*-' to end the comment?"))
                /\ m_pos' = end
           ELSE /\ errs' = errs
                /\ m_pos' = end + 2
    /\ UNCHANGED << source, callvars, pc, tokens, parsevars, drivervars >>

LexDigits ==
    /\ InLexLoop("digits")
    /\ m_starting_pos' = m_pos
    /\ LET result == consume_digits(source, m_starting_pos')
       IN  /\ m_pos' = result.pos
           /\ tokens' = IF result.ok THEN Append(tokens, result.tok) ELSE tokens
           /\ errs' = IF result.ok THEN errs ELSE Append(errs, result.err)
    /\ UNCHANGED << source, callvars, pc, parsevars, drivervars >>

LexIdentifier ==
    /\ InLexLoop("identifier")
    /\ m_starting_pos' = m_pos
    /\ LET result == consume_identifier(source, m_starting_pos', m_pos)
       IN  /\ m_pos' = result.pos
           /\ tokens' = Append(tokens, result.tok)
    /\ UNCHANGED << source, callvars, pc, errs, parsevars, drivervars >>

LexSingleChar ==
    /\ InLexLoop("single_char")
    /\ m_starting_pos' = m_pos
    /\ tokens' = Append(tokens,
          create_token(m_starting_pos', single_char_symbols[<<current(source, m_pos)>>],
                       substr(source, m_pos, 1)))
    /\ m_pos' = m_pos + 1
    /\ UNCHANGED << source, callvars, pc, errs, parsevars, drivervars >>

LexTwoChar ==
    /\ InLexLoop("two_char")
    /\ m_starting_pos' = m_pos
    /\ tokens' = Append(tokens,
          create_token(m_starting_pos',
              one_or_two_char_symbols[<<current(source, m_pos), peek(source, m_pos)>>],
              substr(source, m_pos, 2)))
    /\ m_pos' = m_pos + 2
    /\ UNCHANGED << source, callvars, pc, errs, parsevars, drivervars >>

LexOneChar ==
    /\ InLexLoop("one_char")
    /\ m_starting_pos' = m_pos
    /\ tokens' = Append(tokens,
          create_token(m_starting_pos', one_or_two_char_symbols[<<current(source, m_pos)>>],
                       substr(source, m_pos, 1)))
    /\ m_pos' = m_pos + 1
    /\ UNCHANGED << source, callvars, pc, errs, parsevars, drivervars >>

LexString ==
    /\ InLexLoop("string")
    /\ m_starting_pos' = m_pos
    /\ LET result == consume_stringlike(source, m_starting_pos', "\"")
       IN  /\ m_pos' = result.pos
           /\ tokens' = IF result.ok THEN Append(tokens, result.tok) ELSE tokens
           /\ errs' = IF result.ok THEN errs ELSE Append(errs, result.err)
    /\ UNCHANGED << source, callvars, pc, parsevars, drivervars >>

LexChar ==
    /\ InLexLoop("char")
    /\ m_starting_pos' = m_pos
    /\ LET result == consume_stringlike(source, m_starting_pos', "'")
       IN  /\ m_pos' = result.pos
           /\ tokens' = IF result.ok THEN Append(tokens, result.tok) ELSE tokens
           /\ errs' = IF result.ok THEN errs ELSE Append(errs, result.err)
    /\ UNCHANGED << source, callvars, pc, parsevars, drivervars >>

LexUnknown ==
    /\ InLexLoop("unknown")
    /\ m_starting_pos' = m_pos
    /\ errs' = Append(errs,
          token_error("unknown_char",
                      create_token(m_starting_pos', "unknown", substr(source, m_pos, 1)), ""))
    /\ m_pos' = m_pos + 1
    /\ UNCHANGED << source, callvars, pc, tokens, parsevars, drivervars >>

\* lex(): the loop condition fails and the token vector is returned to
\* driver::parse, which hands it to core::parse
LexReturn ==
    /\ pc = "lex"
    /\ is_at_end(source, m_pos)
    /\ pc' = "parse"
    /\ UNCHANGED << source, callvars, lexvars, errs, parsevars, drivervars >>

-----------------------------------------------------------------------------
(* Source ranges and tree nodes                                            *)

Max(a, b) == IF a >= b THEN a ELSE b

\* source_info::from(original, new_len)
srcinfo_len(original, new_len) == [pos |-> original.pos, len |-> new_len]

\* source_info::from(one, two): the range covering both
srcinfo_from(one, two) ==
    [pos |-> Min(one.pos, two.pos),
     len |-> Max(one.pos + one.len, two.pos + two.len) - Min(one.pos, two.pos)]

\* token::info() and node::info()
info(x) == [pos |-> x.pos, len |-> x.len]

\* A tree node: `variant` is the C++ class, `kind` the ast::kind its
\* constructor passes to the base class
ast_node(variant, kind, inf, name, op, val, kids) ==
    [variant |-> variant, kind |-> kind, pos |-> inf.pos, len |-> inf.len,
     name |-> name, op |-> op, val |-> val, kids |-> kids]

\* a null unique_ptr
nullptr == ast_node("nullptr", "nullptr", [pos |-> 0, len |-> 0], << >>, "", 0, << >>)

\* a std::vector of nodes handed from one parser routine to the next
node_list(kids) == ast_node("list", "list", [pos |-> 0, len |-> 0], << >>, "", 0, kids)

int_literal(inf, number) ==
    ast_node("int_literal", "literal_number", inf, << >>, "", number, << >>)
bool_literal(inf, value) ==
    ast_node("bool_literal", "literal_bool", inf, << >>, "", IF value THEN 1 ELSE 0, << >>)
char_literal(inf, chars) ==
    ast_node("char_literal", "literal_char", inf, chars, "", 0, << >>)
string_literal(inf, str) ==
    ast_node("string_literal", "literal_string", inf, str, "", 0, << >>)
identifier(inf, name) ==
    ast_node("identifier", "identifier", inf, name, "", 0, << >>)
call_expr(inf, callee, args) ==
    ast_node("call", "expression_call", inf, << >>, "", 0, <<callee>> \o args)
binary(inf, op, lhs, rhs) ==
    ast_node("binary", "expression_binary", inf, << >>, op, 0, <<lhs, rhs>>)
unary_expr(inf, op, rhs) ==
    ast_node("unary", "expression_unary", inf, << >>, op, 0, <<rhs>>)
field_access(inf, accessed, field) ==
    ast_node("field_access", "expression_field_access", inf, field, "", 0, <<accessed>>)
index_expr(inf, array, idx) ==
    ast_node("index", "expression_index", inf, << >>, "", 0, <<array, idx>>)
if_else(inf, condition, true_clause, false_clause) ==
    ast_node("if_else", "expression_if_else", inf, << >>, "", 0,
             <<condition, true_clause>> \o false_clause)
implied(inf) ==
    ast_node("implied", "type_implied", inf, << >>, "", 0, << >>)
void_type(inf) ==
    ast_node("void_type", "type_void", inf, << >>, "", 0, << >>)
block_expr(inf, statements, type) ==
    ast_node("block", "expression_block", inf, << >>, "", 0, <<type>> \o statements)
builtin(inf, width, num_type) ==
    ast_node("builtin", "type_builtin", inf, << >>, num_type, width, << >>)
user_defined(inf, name) ==
    ast_node("user_defined", "type_userdef", inf, name, "", 0, << >>)
pointer(inf, ptr_type, held) ==
    ast_node("pointer", "type_ptr", inf, << >>, ptr_type, 0, <<held>>)
reference(inf, ref_type, held) ==
    ast_node("reference", "type_ptr", inf, << >>, ref_type, 0, <<held>>)
array(inf, length, held) ==
    ast_node("array", "type_array", inf, << >>, "", length, <<held>>)
expression_statement(inf, expr) ==
    ast_node("expression_statement", "statement_expression", inf, << >>, "", 0, <<expr>>)
let_stmt(inf, expr, type, name) ==
    ast_node("let", "statement_let", inf, name, "", 0, <<expr, type>>)
mut_stmt(inf, expr, type, name) ==
    ast_node("mut", "statement_mut", inf, name, "", 0, <<expr, type>>)
ret_stmt(inf, ret_val) ==
    ast_node("ret", "statement_ret", inf, << >>, "", 0, ret_val)
\* loop::loop passes kind::statement_ret to the base class
loop_stmt(inf, condition, body) ==
    ast_node("loop", "statement_ret", inf, << >>, "", 0, condition \o <<body>>)
const_decl(inf, name, init, type) ==
    ast_node("const_decl", "declaration_const", inf, name, "", 0, <<init, type>>)
static_decl(inf, name, init, type) ==
    ast_node("static_decl", "declaration_static", inf, name, "", 0, <<init, type>>)
argument(inf, name, type) ==
    ast_node("argument", "declaration_argument", inf, name, "", 0, <<type>>)
fn_decl(inf, name, args, type, body) ==
    ast_node("fn", "declaration_fn", inf, name, "", Len(args), <<body, type>> \o args)
module_node(inf, name) ==
    ast_node("module_decl", "declaration_module", inf, name, "", 0, << >>)
export_node(inf, exported) ==
    ast_node("export_decl", "declaration_export", inf, << >>, "", 0, <<exported>>)
\* type_decl::type_decl passes kind::declaration_export to the base class
type_node(inf, type, name) ==
    ast_node("type_decl", "declaration_export", inf, name, "", 0, <<type>>)

-----------------------------------------------------------------------------
(* Parser: core/parser.cc.  A routine maps the parser state p to the state *)
(* after it: i is m_index, errs the errors reported so far, node what the  *)
(* routine returned, and st how it ended: "ok" (returned), "throw" (an     *)
(* error_sentinel is in flight), "abort" (a failed assertion or a null     *)
(* dereference ended the process) or "hang" (a loop that cannot end).      *)

parser_state(i, es) ==
    [i |-> i, errs |-> es, st |-> "ok", node |-> nullptr, at_end_consume |-> FALSE]

ok(p) == p.st = "ok"
returning(p, n) == [p EXCEPT !.node = n]

\* is_at_end(), current_nothrow(), previous()
parser_at_end(toks, p) == p.i = Len(toks)
cur(toks, p) == toks[p.i + 1]
previous(toks, p) == toks[p.i]

\* consume(): asserts !is_at_end(), then returns m_toks[m_index++]
consume(toks, p) ==
    IF parser_at_end(toks, p)
    THEN [p EXCEPT !.st = "abort", !.at_end_consume = TRUE]
    ELSE [p EXCEPT !.i = @ + 1]

\* report_error(code, token, note): report, then throw error_sentinel
report_error(p, code, tok, note) ==
    [p EXCEPT !.errs = Append(@, token_error(code, tok, note)), !.st = "throw"]

\* report_error(code, node, note)
report_error_node(p, code, n, note) ==
    [p EXCEPT !.errs = Append(@, ast_error(code, n, note)), !.st = "throw"]

\* report_nothrow(code, token, note)
report_nothrow(p, code, tok, note) ==
    [p EXCEPT !.errs = Append(@, token_error(code, tok, note))]

\* report_error(code, consume(), note): the argument is evaluated first
report_consumed(toks, p, code, note) ==
    report_error(consume(toks, p), code, cur(toks, p), note)

\* current() at the end of the tokens:
\* report_error(unexpected_end_of_input, previous()), previous() asserting
\* m_index > 0
end_of_input(toks, p, note) ==
    IF p.i = 0 THEN [p EXCEPT !.st = "abort"]
    ELSE report_error(p, "unexpected_end_of_input", previous(toks, p), note)

\* current().is_one_of(kinds...) once current() is known not to throw
cur_is(toks, p, kinds) == cur(toks, p).kind \in kinds

\* static is_builtin(identifier)
builtin_words ==
    { <<"i","8">>, <<"i","1","6">>, <<"i","3","2">>, <<"i","6","4">>,
      <<"u","8">>, <<"u","1","6">>, <<"u","3","2">>, <<"u","6","4">>,
      <<"f","3","2">>, <<"f","6","4">>, <<"b","o","o","l">> }

is_builtin(tok) == tok.raw \in builtin_words

\* token::is_assignment(): `=` and the compound assignment operators
is_assignment(tok) ==
    tok.kind \in { "symbol_equal", "symbol_plusequal", "symbol_hyphenequal",
                   "symbol_starequal", "symbol_forwardslashequal",
                   "symbol_percentequal", "symbol_ltltequal", "symbol_gtgtequal",
                   "symbol_poundequal", "symbol_pipeequal", "symbol_caretequal" }

\* synchronize(): the kinds it stops at without consuming
sync_kinds ==
    { "keyword_if", "keyword_else", "keyword_then", "keyword_fn", "keyword_let",
      "keyword_mut", "keyword_ret", "keyword_import", "keyword_export",
      "keyword_module", "keyword_as", "keyword_pub", "keyword_assert",
      "symbol_closebrace", "symbol_closeparen", "symbol_closebracket" }

\* a synchronize that also consumes the token it stops at
RECURSIVE synchronize_past(_, _)
synchronize_past(toks, i) ==
    IF i = Len(toks) THEN i
    ELSE IF toks[i + 1].kind = "symbol_semicolon" THEN i + 1
    ELSE IF toks[i + 1].kind \in sync_kinds THEN i + 1
    ELSE synchronize_past(toks, i + 1)

\* synchronize(): the value of m_index when it returns
RECURSIVE synchronize(_, _)
synchronize(toks, i) ==
    IF i = Len(toks) THEN i
    ELSE IF toks[i + 1].kind = "symbol_semicolon" THEN i + 1
    ELSE IF toks[i + 1].kind \in sync_kinds THEN i
    ELSE synchronize(toks, i + 1)

\* a check_semi that reports at the token before the missing `;`
check_semi_previous(toks, p, note) ==
    IF parser_at_end(toks, p)
    THEN end_of_input(toks, p, "Expected a ';'!")
    ELSE IF cur(toks, p).kind # "symbol_semicolon"
         THEN report_error(consume(toks, p), "expected_semi", previous(toks, p), note)
         ELSE p

\* check_semi(note)
check_semi(toks, p, note) ==
    IF parser_at_end(toks, p)
    THEN end_of_input(toks, p, "Expected a ';'!")
    ELSE IF cur(toks, p).kind # "symbol_semicolon"
         THEN report_consumed(toks, p, "expected_semi", note)
         ELSE p

\* the largest value of `int number`
INT_MAX == 2147483647

\* std::from_chars(first, last, int&): the value of the leading digits
digit_value(c) ==
    CASE c = "0" -> 0 [] c = "1" -> 1 [] c = "2" -> 2 [] c = "3" -> 3 [] c = "4" -> 4
      [] c = "5" -> 5 [] c = "6" -> 6 [] c = "7" -> 7 [] c = "8" -> 8 [] c = "9" -> 9

RECURSIVE from_chars(_, _, _)
from_chars(raw, k, acc) ==
    IF k > Len(raw) \/ ~isdigit(raw[k]) THEN acc
    ELSE from_chars(raw, k + 1, acc * 10 + digit_value(raw[k]))

\* primary(), char literal: `ss >> c` skips white space and reads one char;
\* what is left makes the literal invalid
RECURSIVE skip_leading_space(_)
skip_leading_space(chars) ==
    IF chars # << >> /\ isspace(Head(chars)) THEN skip_leading_space(Tail(chars))
    ELSE chars

\* the statements after a call: not reached when the call threw an
\* error_sentinel, ended the process or cannot return
then(r, rest(_)) == IF r.st # "ok" THEN r ELSE rest(r)

\* try { r; rest } catch (error_sentinel &) { handler }
try_catch(r, rest(_), handler(_)) ==
    IF r.st = "ok" THEN rest(r) ELSE IF r.st = "throw" THEN handler(r) ELSE r

\* the parser's routines call one another
RECURSIVE binary_loop(_, _, _), parse_operand(_, _, _), climb(_, _, _, _, _),
          parse_binary(_, _, _), logical_or(_, _), equality(_, _), logical_not(_, _),
          unary(_, _), finish_call_loop(_, _, _), finish_call(_, _, _), grouping(_, _),
          block_loop(_, _, _), block(_, _), primary(_, _), call_loop(_, _), call(_, _),
          if_clause(_, _, _), if_then(_, _), assignment_loop(_, _), assignment(_, _),
          expression(_, _), finish_type(_, _), type_without_colon(_, _),
          type_with_colon(_, _), variable(_, _), ret(_, _), loop(_, _),
          expr_statement(_, _), statement(_, _), module_decl(_, _), const_static(_, _),
          type_decl(_, _), fn_args(_, _, _), fn(_, _), export_decl(_, _),
          declaration(_, _)

\* binary levels whose additive and multiplicative operators changed places
binary_kinds_exchanged(level) ==
    CASE level = "logical_or"     -> {"keyword_or"}
      [] level = "logical_xor"    -> {"keyword_xor"}
      [] level = "logical_and"    -> {"keyword_and"}
      [] level = "equality"       -> {"symbol_equalequal", "symbol_bangequal"}
      [] level = "relational"     -> {"symbol_gt", "symbol_geq", "symbol_lt", "symbol_leq"}
      [] level = "bitwise_or"     -> {"symbol_pipe"}
      [] level = "bitwise_xor"    -> {"symbol_caret"}
      [] level = "bitwise_and"    -> {"symbol_pound"}
      [] level = "bitshift"       -> {"symbol_gtgt", "symbol_ltlt"}
      [] level = "addition"       -> {"symbol_star", "symbol_forwardslash", "symbol_percent"}
      [] level = "multiplication" -> {"symbol_plus", "symbol_hyphen"}

\* The binary levels with the operators each one peels off
binary_kinds(level) ==
    CASE level = "logical_or"     -> {"keyword_or"}
      [] level = "logical_xor"    -> {"keyword_xor"}
      [] level = "logical_and"    -> {"keyword_and"}
      [] level = "equality"       -> {"symbol_equalequal", "symbol_bangequal"}
      [] level = "relational"     -> {"symbol_gt", "symbol_geq", "symbol_lt", "symbol_leq"}
      [] level = "bitwise_or"     -> {"symbol_pipe"}
      [] level = "bitwise_xor"    -> {"symbol_caret"}
      [] level = "bitwise_and"    -> {"symbol_pound"}
      [] level = "bitshift"       -> {"symbol_gtgt", "symbol_ltlt"}
      [] level = "addition"       -> {"symbol_plus", "symbol_hyphen"}
      [] level = "multiplication" -> {"symbol_star", "symbol_forwardslash", "symbol_percent"}

\* the binary levels reached through logical_or, and those reached through
\* equality, tightest first: each one's next_level is the one before it, the
\* first one's is logical_not, respectively unary
logical_levels == <<"logical_and", "logical_xor", "logical_or">>
arithmetic_levels ==
    <<"multiplication", "addition", "bitshift", "bitwise_and", "bitwise_xor",
      "bitwise_or", "relational", "equality">>

level_group(level) ==
    IF level \in {"logical_and", "logical_xor", "logical_or"}
    THEN logical_levels ELSE arithmetic_levels

level_index(level) ==
    CHOOSE k \in 1..Len(level_group(level)) : level_group(level)[k] = level

\* parse_binary: while (!is_at_end() && current().is_one_of(kinds...)); p.node
\* is expr, and the right operand is parsed by next_level
binary_loop(toks, p, level) ==
    IF ~ok(p) THEN p
    ELSE IF ~parser_at_end(toks, p) /\ cur_is(toks, p, binary_kinds(level))
    THEN then(IF level_index(level) = 1
              THEN parse_operand(toks, consume(toks, p), level)
              ELSE parse_binary(toks, consume(toks, p),
                                level_group(level)[level_index(level) - 1]),
              LAMBDA rhs:
                  binary_loop(toks,
                      returning(rhs, binary(srcinfo_from(info(p.node), info(rhs.node)),
                                            cur(toks, p).kind, p.node, rhs.node)),
                      level))
    ELSE p

\* the routine the tightest level of a group calls for an operand
parse_operand(toks, p, level) ==
    IF level_group(level) = logical_levels THEN logical_not(toks, p) ELSE unary(toks, p)

\* levels k..n of a group applied in turn to the operand expr: every level
\* begins by calling its next_level at the same token, so the operand is
\* parsed first and each level then runs its loop on what the one below built
climb(toks, expr, group, k, n) ==
    IF k > n \/ ~ok(expr) THEN expr
    ELSE climb(toks, binary_loop(toks, expr, group[k]), group, k + 1, n)

\* parse_binary(next_level, kinds...): logical_or, logical_xor, logical_and,
\* equality, relational, bitwise_or, bitwise_xor, bitwise_and, bitshift,
\* addition and multiplication are this routine at their level
parse_binary(toks, p, level) ==
    climb(toks, parse_operand(toks, p, level), level_group(level), 1, level_index(level))

logical_or(toks, p) == parse_binary(toks, p, "logical_or")
equality(toks, p)   == parse_binary(toks, p, "equality")

\* parse_unary(curr_lvl = logical_not, next_lvl = equality, keyword_not)
logical_not(toks, p) ==
    IF ~parser_at_end(toks, p) /\ cur_is(toks, p, {"keyword_not"})
    THEN then(logical_not(toks, consume(toks, p)),
              LAMBDA rhs:
                  returning(rhs, unary_expr(srcinfo_from(info(cur(toks, p)), info(rhs.node)),
                                            cur(toks, p).kind, rhs.node)))
    ELSE equality(toks, p)

\* parse_unary(curr_lvl = unary, next_lvl = call, ~ * & @ + - clone)
unary(toks, p) ==
    IF /\ ~parser_at_end(toks, p)
       /\ cur_is(toks, p, {"symbol_tilde", "symbol_star", "symbol_pound", "symbol_at",
                           "symbol_plus", "symbol_hyphen", "keyword_clone"})
    THEN then(unary(toks, consume(toks, p)),
              LAMBDA rhs:
                  returning(rhs, unary_expr(srcinfo_from(info(cur(toks, p)), info(rhs.node)),
                                            cur(toks, p).kind, rhs.node)))
    ELSE call(toks, p)

\* finish_call: the argument loop; args is the vector so far
finish_call_loop(toks, p, args) ==
    IF ~parser_at_end(toks, p) /\ ~cur_is(toks, p, {"symbol_closeparen"})
    THEN then(expression(toks, p),
              LAMBDA arg:
                  IF parser_at_end(toks, arg) THEN end_of_input(toks, arg, "")
                  ELSE IF cur_is(toks, arg, {"symbol_comma", "symbol_closeparen"})
                  THEN finish_call_loop(toks,
                           IF cur_is(toks, arg, {"symbol_comma"})
                           THEN consume(toks, arg) ELSE arg,
                           Append(args, arg.node))
                  ELSE report_consumed(toks, arg, "expected_comma",
                                       "Expected a ',' or a ')' after argument!"))
    ELSE returning(p, node_list(args))

\* finish_call: `auto close = consume()` follows the loop whether or not a
\* token is left
finish_call(toks, p, callee) ==
    then(finish_call_loop(toks, consume(toks, p), << >>),
         LAMBDA args:
             then(consume(toks, args),
                  LAMBDA closed:
                      returning(closed,
                          call_expr(srcinfo_from(info(callee), info(cur(toks, args))),
                                    callee, args.node.kids))))

\* grouping: a parenthesized expression is returned as the inner expression
grouping(toks, p) ==
    IF parser_at_end(toks, p) THEN end_of_input(toks, p, "")
    ELSE IF cur_is(toks, p, {"symbol_openparen"})
    THEN then(expression(toks, consume(toks, p)),
              LAMBDA expr:
                  IF parser_at_end(toks, expr) THEN end_of_input(toks, expr, "")
                  ELSE IF ~cur_is(toks, expr, {"symbol_closeparen"})
                  THEN then(expression(toks, expr),
                            LAMBDA unexpected:
                                report_error(unexpected, "unclosed_paren", cur(toks, p),
                                             "Did you forget a ')'? "))
                  ELSE returning(consume(toks, expr), expr.node))
    ELSE IF cur_is(toks, p, {"symbol_openbrace"}) THEN block(toks, p)
    ELSE report_consumed(toks, p, "expected_expression", "")

\* block: while (!is_at_end() && current().is_not(symbol_closebrace)), the
\* try and the catch with its synchronize().  What one pass does depends on
\* m_index alone, so a pass that ends where it began is repeated, growing
\* `statements`, and the routine does not return: "hang"
block_loop(toks, p, statements) ==
    IF ~parser_at_end(toks, p) /\ ~cur_is(toks, p, {"symbol_closebrace"})
    THEN try_catch(statement(toks, p),
             LAMBDA s:
                 IF s.i = p.i THEN [s EXCEPT !.st = "hang"]
                 ELSE block_loop(toks, s, Append(statements, s.node)),
             LAMBDA s:
                 IF synchronize(toks, s.i) = p.i THEN [s EXCEPT !.st = "hang"]
                 ELSE block_loop(toks, [s EXCEPT !.st = "ok", !.i = synchronize(toks, s.i)],
                                 statements))
    ELSE returning(p, node_list(statements))

\* block: `auto close = consume()` follows the loop whether or not a token
\* is left
block(toks, p) ==
    IF parser_at_end(toks, p) THEN end_of_input(toks, p, "")
    ELSE IF ~cur_is(toks, p, {"symbol_openbrace"})
    THEN report_consumed(toks, p, "expected_opening_brace", "")
    ELSE then(block_loop(toks, consume(toks, p), << >>),
              LAMBDA body:
                  then(consume(toks, body),
                       LAMBDA closed:
                           returning(closed,
                               block_expr(srcinfo_from(info(cur(toks, p)),
                                                       info(cur(toks, body))),
                                          body.node.kids,
                                          implied(srcinfo_len(info(cur(toks, p)), 1))))))

\* the char a char literal holds: `ss >> c` skips white space and reads one
\* char; c is never initialized when there is none to read
char_value(chars) ==
    IF skip_leading_space(chars) = << >> THEN <<"indeterminate">>
    ELSE <<Head(skip_leading_space(chars))>>

primary(toks, p) ==
    IF parser_at_end(toks, p) THEN end_of_input(toks, p, "")
    ELSE LET tok == cur(toks, p)
             q   == consume(toks, p)
         IN  CASE tok.kind = "literal_number" ->
                    IF from_chars(tok.raw, 1, 0) > INT_MAX
                    THEN report_error(q, "number_literal_too_large", tok, "")
                    ELSE returning(q, int_literal(info(tok), from_chars(tok.raw, 1, 0)))
               [] tok.kind = "literal_float" ->
                    \* std::stof, and the result is stored in an ast::int_literal
                    returning(q, int_literal(info(tok), from_chars(tok.raw, 1, 0)))
               [] tok.kind = "literal_bool" ->
                    returning(q, bool_literal(info(tok), tok.raw = <<"t","r","u","e">>))
               [] tok.kind = "literal_char" ->
                    \* ss.rdbuf()->in_avail() != 0: chars are left after c
                    IF Len(skip_leading_space(SubSeq(tok.raw, 2, Len(tok.raw) - 1))) > 1
                    THEN report_error(q, "invalid_char_literal", tok, "")
                    ELSE returning(q, char_literal(info(tok),
                             char_value(SubSeq(tok.raw, 2, Len(tok.raw) - 1))))
               [] tok.kind = "literal_string" ->
                    returning(q, string_literal(info(tok),
                                                SubSeq(tok.raw, 2, Len(tok.raw) - 1)))
               [] tok.kind = "identifier" ->
                    returning(q, identifier(info(tok), tok.raw))
               [] OTHER -> grouping(toks, p)

\* call: the loop over `(`, `[` and `.`; p.node is expr
call_loop(toks, p) ==
    IF parser_at_end(toks, p) THEN p
    ELSE IF cur_is(toks, p, {"symbol_openparen"})
    THEN then(finish_call(toks, p, p.node), LAMBDA c: call_loop(toks, c))
    ELSE IF cur_is(toks, p, {"symbol_openbracket"})
    THEN then(expression(toks, consume(toks, p)),
              LAMBDA idx:
                  IF parser_at_end(toks, idx)
                  THEN end_of_input(toks, idx, "Expected a closing ']'.")
                  ELSE IF cur_is(toks, idx, {"symbol_closebracket"})
                  THEN call_loop(toks,
                           returning(consume(toks, idx),
                               index_expr(srcinfo_from(info(p.node), info(cur(toks, idx))),
                                          p.node, idx.node)))
                  ELSE report_consumed(toks, idx, "expected_closing_bracket",
                           "Expected a ']' to finish index access expression"))
    ELSE IF cur_is(toks, p, {"symbol_dot"})
    THEN LET q == consume(toks, p)
         IN  IF parser_at_end(toks, q)
             THEN end_of_input(toks, q, "Expected a field or method name, but got EOF.")
             ELSE IF ~cur_is(toks, q, {"identifier"})
                  THEN report_consumed(toks, q, "unexpected_tok",
                                       "Expected a field name or a method name.")
                  ELSE call_loop(toks,
                           returning(consume(toks, q),
                               field_access(srcinfo_from(info(p.node), info(cur(toks, q))),
                                            p.node, cur(toks, q).raw)))
    ELSE p

call(toks, p) == then(primary(toks, p), LAMBDA expr: call_loop(toks, expr))

\* a clause that is a block whether or not `then` was present
if_clause_block(toks, p, is_then) == block(toks, p)

\* if_then: (is_then) ? if_then() : block()
if_clause(toks, p, is_then) == IF is_then THEN if_then(toks, p) ELSE block(toks, p)

if_then(toks, p) ==
    IF parser_at_end(toks, p) THEN end_of_input(toks, p, "")
    ELSE IF ~cur_is(toks, p, {"keyword_if"}) THEN logical_or(toks, p)
    ELSE then(if_then(toks, consume(toks, p)),
      LAMBDA condition:
        IF parser_at_end(toks, condition) THEN end_of_input(toks, condition, "")
        ELSE then(if_clause(toks,
                            IF cur_is(toks, condition, {"keyword_then"})
                            THEN consume(toks, condition) ELSE condition,
                            cur_is(toks, condition, {"keyword_then"})),
          LAMBDA true_clause:
            IF parser_at_end(toks, true_clause) THEN end_of_input(toks, true_clause, "")
            ELSE IF cur_is(toks, true_clause, {"keyword_else"})
            THEN then(if_clause(toks, consume(toks, true_clause),
                                cur_is(toks, condition, {"keyword_then"})),
                   LAMBDA false_clause:
                     returning(false_clause,
                         if_else(srcinfo_from(info(cur(toks, p)), info(false_clause.node)),
                                 condition.node, true_clause.node, <<false_clause.node>>)))
            ELSE IF cur_is(toks, condition, {"keyword_then"})
            THEN report_error_node(true_clause, "expected_else_after_then",
                     if_else(srcinfo_from(info(cur(toks, p)), info(true_clause.node)),
                             condition.node, true_clause.node, << >>), "")
            ELSE returning(true_clause,
                     if_else(srcinfo_from(info(cur(toks, p)), info(true_clause.node)),
                             condition.node, true_clause.node, << >>))))

\* assignment: while (!is_at_end() && current().is_assignment()); p.node is expr
assignment_loop(toks, p) ==
    IF ~parser_at_end(toks, p) /\ is_assignment(cur(toks, p))
    THEN then(assignment(toks, consume(toks, p)),
              LAMBDA rhs:
                  assignment_loop(toks,
                      returning(rhs, binary(srcinfo_from(info(p.node), info(rhs.node)),
                                            cur(toks, p).kind, p.node, rhs.node))))
    ELSE p

assignment(toks, p) == then(if_then(toks, p), LAMBDA expr: assignment_loop(toks, expr))

expression(toks, p) == assignment(toks, p)

\* finish_type: the leaf of a type, an identifier
type_leaf(id) ==
    LET raw   == id.raw
        width == Tail(raw)
        type  == IF raw[1] = "i" THEN "integer" ELSE "unsigned_integer"
    IN  IF raw = <<"b","o","o","l">> THEN builtin(info(id), 1, "boolean")
        ELSE IF raw[1] = "i" \/ raw[1] = "u"
        THEN IF width = <<"8">> THEN builtin(info(id), 8, type)
             ELSE IF width = <<"1","6">> THEN builtin(info(id), 16, type)
             ELSE IF width = <<"3","2">> THEN builtin(info(id), 32, type)
             ELSE IF width = <<"6","4">> THEN builtin(info(id), 64, type)
             ELSE user_defined(info(id), raw)
        ELSE IF raw[1] = "f"
        THEN IF width = <<"3","2">> THEN builtin(info(id), 32, "floating_point")
             ELSE IF width = <<"6","4">> THEN builtin(info(id), 64, "floating_point")
             ELSE user_defined(info(id), raw)
        ELSE user_defined(info(id), raw)

finish_type(toks, p) ==
    IF parser_at_end(toks, p) THEN end_of_input(toks, p, "")
    ELSE IF cur_is(toks, p, {"symbol_star"})
    THEN IF parser_at_end(toks, consume(toks, p))
         THEN end_of_input(toks, consume(toks, p), "")
         ELSE then(finish_type(toks,
                       IF cur_is(toks, consume(toks, p), {"keyword_mut"})
                       THEN consume(toks, consume(toks, p)) ELSE consume(toks, p)),
                   LAMBDA type:
                       returning(type,
                           pointer(srcinfo_from(info(cur(toks, p)), info(type.node)),
                                   IF cur_is(toks, consume(toks, p), {"keyword_mut"})
                                   THEN "mut_ptr" ELSE "ptr",
                                   type.node)))
    ELSE IF cur_is(toks, p, {"symbol_openbracket"})
    THEN IF parser_at_end(toks, consume(toks, p))
         THEN end_of_input(toks, consume(toks, p), "")
         ELSE IF ~cur_is(toks, consume(toks, p), {"symbol_closebracket"})
         THEN report_consumed(toks, consume(toks, p), "unexpected_tok",
                              "Expected a ']' to match opening '['")
         ELSE then(finish_type(toks, consume(toks, consume(toks, p))),
                   LAMBDA type:
                       returning(type,
                           array(srcinfo_from(info(cur(toks, p)), info(type.node)), 0,
                                 type.node)))
    ELSE IF cur_is(toks, p, {"identifier"})
    THEN returning(consume(toks, p), type_leaf(cur(toks, p)))
    ELSE report_error(p, "expected_type", cur(toks, p),
                      "An identifier, *, *mut or [] was expected.")

\* type_without_colon: references can only appear at the very beginning
type_without_colon(toks, p) ==
    IF parser_at_end(toks, p) THEN end_of_input(toks, p, "")
    ELSE IF cur_is(toks, p, {"symbol_pound"})
    THEN IF parser_at_end(toks, consume(toks, p))
         THEN end_of_input(toks, consume(toks, p), "")
         ELSE then(finish_type(toks,
                       IF cur_is(toks, consume(toks, p), {"keyword_mut"})
                       THEN consume(toks, consume(toks, p)) ELSE consume(toks, p)),
                   LAMBDA type:
                       returning(type,
                           reference(srcinfo_from(info(cur(toks, p)), info(type.node)),
                                     IF cur_is(toks, consume(toks, p), {"keyword_mut"})
                                     THEN "mut_ref" ELSE "ref",
                                     type.node)))
    ELSE finish_type(toks, p)

type_with_colon(toks, p) ==
    IF parser_at_end(toks, p) THEN end_of_input(toks, p, "")
    ELSE IF ~cur_is(toks, p, {"symbol_colon"})
    THEN report_consumed(toks, p, "unexpected_tok", "Expected a ':' before type!")
    ELSE type_without_colon(toks, consume(toks, p))

\* variable(): p.i is at `let` or `mut`
variable(toks, p) ==
    IF parser_at_end(toks, consume(toks, p)) THEN end_of_input(toks, consume(toks, p), "")
    ELSE IF ~cur_is(toks, consume(toks, p), {"identifier"})
    THEN report_consumed(toks, consume(toks, p), "expected_identifier",
             IF cur_is(toks, p, {"keyword_let"})
             THEN "Expected an identifier after keyword 'let'."
             ELSE "Expected an identifier after keyword 'mut'.")
    ELSE IF parser_at_end(toks, consume(toks, consume(toks, p)))
    THEN end_of_input(toks, consume(toks, consume(toks, p)), "")
    ELSE then(IF cur_is(toks, consume(toks, consume(toks, p)), {"symbol_colon"})
              THEN type_with_colon(toks, consume(toks, consume(toks, p)))
              ELSE returning(consume(toks, consume(toks, p)),
                             implied(info(cur(toks, consume(toks, p))))),
      LAMBDA var_type:
        IF parser_at_end(toks, var_type) THEN end_of_input(toks, var_type, "")
        ELSE IF ~cur_is(toks, var_type, {"symbol_equal"})
        THEN report_consumed(toks, var_type, "unexpected_tok",
                             "Expected an '=' for variable initializer!")
        ELSE then(expression(toks, consume(toks, var_type)),
          LAMBDA expr:
            then(check_semi(toks, expr, "Expected a ';' after initializer!"),
              LAMBDA semi:
                returning(consume(toks, semi),
                    IF cur_is(toks, p, {"keyword_let"})
                    THEN let_stmt(srcinfo_from(info(cur(toks, p)), info(cur(toks, semi))),
                                  expr.node, var_type.node,
                                  cur(toks, consume(toks, p)).raw)
                    ELSE mut_stmt(srcinfo_from(info(cur(toks, p)), info(cur(toks, semi))),
                                  expr.node, var_type.node,
                                  cur(toks, consume(toks, p)).raw)))))

\* ret(): p.i is at `ret`
ret(toks, p) ==
    IF parser_at_end(toks, consume(toks, p)) THEN end_of_input(toks, consume(toks, p), "")
    ELSE then(IF ~cur_is(toks, consume(toks, p), {"symbol_semicolon"})
              THEN expression(toks, consume(toks, p))
              ELSE returning(consume(toks, p), nullptr),
      LAMBDA expr:
        IF parser_at_end(toks, expr) THEN end_of_input(toks, expr, "")
        ELSE IF ~cur_is(toks, expr, {"symbol_semicolon"})
        THEN report_consumed(toks, expr, "expected_semi", "")
        ELSE returning(consume(toks, expr),
                 ret_stmt(srcinfo_from(info(cur(toks, p)), info(cur(toks, expr))),
                          IF expr.node = nullptr THEN << >> ELSE <<expr.node>>)))

\* loop(): p.i is at `loop`, `while` or `for`
loop(toks, p) ==
    IF cur_is(toks, p, {"keyword_loop"})
    THEN then(expression(toks, consume(toks, p)),
           LAMBDA body:
             returning(body,
                 loop_stmt(srcinfo_from(info(cur(toks, p)), info(body.node)),
                           << >>, body.node)))
    ELSE then(expression(toks, consume(toks, p)),
           LAMBDA condition:
             then(expression(toks, condition),
               LAMBDA body:
                 returning(body,
                     loop_stmt(srcinfo_from(info(cur(toks, p)), info(body.node)),
                               <<condition.node>>, body.node))))

\* assert_stmt() and break_continue(): return nullptr, consuming nothing
assert_stmt(toks, p) == returning(p, nullptr)
break_continue(toks, p) == returning(p, nullptr)

expr_statement(toks, p) ==
    then(expression(toks, p),
      LAMBDA expr:
        IF parser_at_end(toks, expr) THEN end_of_input(toks, expr, "")
        ELSE IF cur_is(toks, expr, {"symbol_semicolon"})
        THEN returning(consume(toks, expr),
                 expression_statement(srcinfo_from(info(expr.node), info(cur(toks, expr))),
                                      expr.node))
        ELSE IF previous(toks, expr).kind = "symbol_closebrace"
        THEN returning(expr, expression_statement(info(expr.node), expr.node))
        ELSE report_error(expr, "expected_semi", cur(toks, expr),
                          "Expected a ';' after the expression"))

statement(toks, p) ==
    IF parser_at_end(toks, p) THEN end_of_input(toks, p, "")
    ELSE CASE cur_is(toks, p, {"keyword_let", "keyword_mut"}) -> variable(toks, p)
           [] cur_is(toks, p, {"keyword_while", "keyword_for", "keyword_loop"}) ->
                  loop(toks, p)
           [] cur_is(toks, p, {"keyword_ret"}) -> ret(toks, p)
           [] cur_is(toks, p, {"keyword_break", "keyword_continue"}) ->
                  break_continue(toks, p)
           [] cur_is(toks, p, {"keyword_assert"}) -> assert_stmt(toks, p)
           [] OTHER -> expr_statement(toks, p)

\* import_decl(): returns nullptr, consuming nothing
import_decl(toks, p) == returning(p, nullptr)

\* the name of a declaration is consumed, with unexpected_builtin reported
\* and not thrown when it is a reserved name; p.i is at the name
consume_name(toks, p, note) ==
    IF is_builtin(cur(toks, p))
    THEN report_nothrow(consume(toks, p), "unexpected_builtin", cur(toks, p), note)
    ELSE consume(toks, p)

\* module_decl(): p.i is at `module`
module_decl(toks, p) ==
    IF parser_at_end(toks, consume(toks, p)) THEN end_of_input(toks, consume(toks, p), "")
    ELSE IF ~cur_is(toks, consume(toks, p), {"identifier"})
    THEN report_consumed(toks, consume(toks, p), "expected_identifier",
                         "Expected a module name!")
    ELSE then(check_semi(toks,
                  consume_name(toks, consume(toks, p),
                      "Expected a module name, got a reserved builtin name!"),
                  "Expected a ';' after initializer!"),
           LAMBDA semi:
             returning(consume(toks, semi),
                 module_node(srcinfo_from(info(cur(toks, p)), info(cur(toks, semi))),
                             cur(toks, consume(toks, p)).raw)))

\* const_static(): p.i is at `const` or `static`
const_static(toks, p) ==
    IF parser_at_end(toks, consume(toks, p)) THEN end_of_input(toks, consume(toks, p), "")
    ELSE IF ~cur_is(toks, consume(toks, p), {"identifier"})
    THEN report_consumed(toks, consume(toks, p), "expected_identifier",
             IF cur_is(toks, p, {"keyword_const"})
             THEN "Expected an identifier after keyword 'const'!"
             ELSE "Expected an identifier after keyword 'static'!")
    ELSE IF parser_at_end(toks, consume(toks, consume(toks, p)))
    THEN end_of_input(toks,
             consume_name(toks, consume(toks, p),
                 "Expected a variable name, got a reserved builtin name!"), "")
    ELSE then(IF cur_is(toks, consume(toks, consume(toks, p)), {"symbol_colon"})
              THEN type_with_colon(toks,
                       consume_name(toks, consume(toks, p),
                           "Expected a variable name, got a reserved builtin name!"))
              ELSE returning(consume_name(toks, consume(toks, p),
                                 "Expected a variable name, got a reserved builtin name!"),
                             implied(info(cur(toks, consume(toks, p))))),
      LAMBDA var_type:
        IF parser_at_end(toks, var_type) THEN end_of_input(toks, var_type, "")
        ELSE IF ~cur_is(toks, var_type, {"symbol_equal"})
        THEN report_consumed(toks, var_type, "unexpected_tok",
                             "Expected an '=' for variable initializer!")
        ELSE then(expression(toks, consume(toks, var_type)),
          LAMBDA expr:
            then(check_semi(toks, expr, "Expected a ';' after initializer!"),
              LAMBDA semi:
                returning(consume(toks, semi),
                    IF cur_is(toks, p, {"keyword_const"})
                    THEN const_decl(srcinfo_from(info(cur(toks, p)), info(cur(toks, semi))),
                                    cur(toks, consume(toks, p)).raw,
                                    expr.node, var_type.node)
                    ELSE static_decl(srcinfo_from(info(cur(toks, p)), info(cur(toks, semi))),
                                     cur(toks, consume(toks, p)).raw,
                                     expr.node, var_type.node)))))

\* type_decl(): p.i is at `type`
type_decl(toks, p) ==
    IF parser_at_end(toks, consume(toks, p)) THEN end_of_input(toks, consume(toks, p), "")
    ELSE IF ~cur_is(toks, consume(toks, p), {"identifier"})
    THEN report_consumed(toks, consume(toks, p), "expected_identifier",
                         "Expected an identifier for the type alias!")
    ELSE then(consume_name(toks, consume(toks, p),
                  "Expected a type alias name, got a reserved builtin name!"),
      LAMBDA named:
        IF parser_at_end(toks, named) THEN end_of_input(toks, named, "")
        ELSE IF ~cur_is(toks, named, {"symbol_equal"})
        THEN report_consumed(toks, named, "unexpected_tok",
                             "Expected an '=' and a type for type alias!")
        ELSE then(type_without_colon(toks, consume(toks, named)),
          LAMBDA type:
            then(check_semi(toks, type, "Expected a ';' after type alias!"),
              LAMBDA semi:
                returning(consume(toks, semi),
                    type_node(srcinfo_from(info(cur(toks, p)), info(cur(toks, semi))),
                              type.node, cur(toks, consume(toks, p)).raw)))))

\* fn: while (current().is_not(symbol_closeparen)); args is the vector so far
fn_args(toks, p, args) ==
    IF parser_at_end(toks, p) THEN end_of_input(toks, p, "")
    ELSE IF cur_is(toks, p, {"symbol_closeparen"}) THEN returning(p, node_list(args))
    ELSE IF ~cur_is(toks, p, {"identifier"})
    THEN report_consumed(toks, p, "expected_identifier", "Expected an argument name!")
    ELSE IF parser_at_end(toks, consume(toks, p))
    THEN end_of_input(toks, consume(toks, p), "")
    ELSE IF ~cur_is(toks, consume(toks, p), {"symbol_colon"})
    THEN report_consumed(toks, consume(toks, p), "unexpected_tok",
                         "Expected a ':' for argument type!")
    ELSE then(type_with_colon(toks, consume(toks, p)),
      LAMBDA arg_type:
        IF parser_at_end(toks, arg_type) THEN end_of_input(toks, arg_type, "")
        ELSE IF cur_is(toks, arg_type, {"symbol_closeparen", "symbol_comma"})
        THEN fn_args(toks,
                 IF cur_is(toks, arg_type, {"symbol_comma"})
                 THEN consume(toks, arg_type) ELSE arg_type,
                 Append(args,
                     argument(srcinfo_from(info(cur(toks, p)), info(arg_type.node)),
                              cur(toks, p).raw, arg_type.node)))
        ELSE report_consumed(toks, arg_type, "expected_comma",
                             "Expected a comma between arguments!"))

\* fn(): p.i is at `fn`
fn(toks, p) ==
    IF parser_at_end(toks, consume(toks, p)) THEN end_of_input(toks, consume(toks, p), "")
    ELSE IF ~cur_is(toks, consume(toks, p), {"identifier"})
    THEN report_consumed(toks, consume(toks, p), "expected_identifier",
                         "Expected an identifier for the function name!")
    ELSE then(consume_name(toks, consume(toks, p),
                  "Expected an fn name, got reserved builtin name!"),
      LAMBDA named:
        IF parser_at_end(toks, named) THEN end_of_input(toks, named, "")
        ELSE IF ~cur_is(toks, named, {"symbol_openparen"})
        THEN report_consumed(toks, named, "unexpected_tok",
                             "Expected a '(' to begin fn argument list!")
        ELSE then(fn_args(toks, consume(toks, named), << >>),
          LAMBDA args:
            IF parser_at_end(toks, consume(toks, args))
            THEN end_of_input(toks, consume(toks, args), "")
            ELSE then(IF cur_is(toks, consume(toks, args), {"symbol_colon"})
                      THEN type_with_colon(toks, consume(toks, args))
                      ELSE returning(consume(toks, args), void_type(info(cur(toks, args)))),
              LAMBDA return_type:
                then(block(toks, return_type),
                  LAMBDA body:
                    returning(body,
                        fn_decl(srcinfo_from(info(cur(toks, p)), info(body.node)),
                                cur(toks, consume(toks, p)).raw, args.node.kids,
                                return_type.node, body.node))))))

\* export_decl: decl->is(...) dereferences what declaration() returned
export_decl(toks, p) ==
    then(declaration(toks, consume(toks, p)),
      LAMBDA decl:
        IF decl.node = nullptr THEN [decl EXCEPT !.st = "abort"]
        ELSE IF decl.node.kind = "declaration_export"
        THEN report_error_node(decl, "cannot_export_export", decl.node,
                               "Cannot export an export declaration!")
        ELSE returning(decl,
                 export_node(srcinfo_from(info(cur(toks, p)), info(decl.node)),
                             decl.node)))

declaration(toks, p) ==
    IF parser_at_end(toks, p) THEN end_of_input(toks, p, "")
    ELSE CASE cur_is(toks, p, {"keyword_const", "keyword_static"}) -> const_static(toks, p)
           [] cur_is(toks, p, {"keyword_fn"}) -> fn(toks, p)
           [] cur_is(toks, p, {"keyword_import"}) -> import_decl(toks, p)
           [] cur_is(toks, p, {"keyword_module"}) -> module_decl(toks, p)
           [] cur_is(toks, p, {"keyword_export"}) -> export_decl(toks, p)
           [] cur_is(toks, p, {"keyword_type"}) -> type_decl(toks, p)
           [] OTHER -> report_consumed(toks, p, "expected_declaration", "")

\* parse(): one pass of `while (!is_at_end())`: the try block, and the catch
\* block's synchronize() when an error_sentinel was thrown.  The result's
\* node is the declaration pushed on decls, nullptr when none is
parse_iteration(toks, i, es, had_module) ==
    try_catch(declaration(toks, parser_state(i, es)),
        LAMBDA decl:
            IF decl.node = nullptr THEN [decl EXCEPT !.st = "abort"]
            ELSE IF decl.node.kind = "declaration_module" /\ had_module
            THEN [report_error_node(decl, "duplicate_module", decl.node,
                      "You can only have one module declaration per file.")
                  EXCEPT !.st = "ok", !.i = synchronize(toks, decl.i), !.node = nullptr]
            ELSE decl,
        LAMBDA thrown:
            [thrown EXCEPT !.st = "ok", !.i = synchronize(toks, thrown.i),
                           !.node = nullptr])

\* the state after one pass of parse()'s loop, r being what the pass did
parse_pass(r) ==
    /\ m_index' = r.i
    /\ errs' = r.errs
    /\ has_module' = (has_module \/ (r.st = "ok" /\ r.node.kind = "declaration_module"))
    /\ decls' = IF r.st = "ok" /\ r.node # nullptr THEN Append(decls, r.node) ELSE decls
    /\ consume_at_end' = (consume_at_end \/ r.at_end_consume)
    /\ IF r.st = "abort" THEN pc' \in {"aborted", "undefined"}
       ELSE IF r.st = "hang" \/ r.i = m_index THEN pc' = "hung"
       ELSE pc' = "parse"

ParseDeclaration ==
    /\ pc = "parse"
    /\ m_index # Len(tokens)
    /\ parse_pass(parse_iteration(tokens, m_index, errs, has_module))
    /\ UNCHANGED << source, callvars, lexvars, drivervars >>

\* parse(): the loop ends and ast::program(std::move(decls)) is returned
ParseReturn ==
    /\ pc = "parse"
    /\ m_index = Len(tokens)
    /\ pc' = "parsed"
    /\ UNCHANGED << source, callvars, lexvars, errs, parsevars, drivervars >>
-----------------------------------------------------------------------------
(* Typechecker: core/typechecker.cc.  A visit maps the typechecker state t *)
(* to the state after it: table is the global scope's m_table, initializing*)
(* is m_currently_initializing, errs the errors reported so far, type the  *)
(* type_data the visit returned, and st is "ok", "abort" (an               *)
(* assert(false), or scope::get of a name the scope does not have) or      *)
(* "undefined" (front() of an empty deque was read).                       *)
(* decl_types lists, per const or static declaration visited, the type its *)
(* initializer was given and the annotation ref.type().data() the visit    *)
(* left in the AST.                                                        *)

\* ast::type_data: modifiers, base, and the precision or the name
type_data(mods, base, precision, name) ==
    [mods |-> mods, base |-> base, precision |-> precision, name |-> name]

error_type == type_data(<< >>, "error_type", 0, << >>)

\* an operator== that looks for the error type on its left side only
type_equal_left(a, b) ==
    \/ a.base = "error_type"
    \/ (a.mods = b.mods /\ a.precision = b.precision /\ a.name = b.name
        /\ a.base = b.base)

\* type_data::operator==
type_equal(a, b) ==
    \/ a.base = "error_type"
    \/ b.base = "error_type"
    \/ (a.mods = b.mods /\ a.precision = b.precision /\ a.name = b.name
        /\ a.base = b.base)

\* type_data::operator!=
type_not_equal(a, b) == ~type_equal(a, b)

\* type_data::is_builtin
type_is_builtin(t) == t.base \notin {"implied", "void_type", "user_defined"}

\* ast::type::data() of the type node the parser built
RECURSIVE node_type_data(_)
node_type_data(n) ==
    CASE n.variant = "implied"      -> type_data(<< >>, "implied", 0, << >>)
      [] n.variant = "void_type"    -> type_data(<< >>, "void_type", 0, << >>)
      [] n.variant = "builtin"      -> type_data(<< >>, n.op, n.val, << >>)
      [] n.variant = "user_defined" -> type_data(<< >>, "user_defined", 0, n.name)
      [] n.variant = "array" ->
            [node_type_data(n.kids[1]) EXCEPT !.mods = <<"array">> \o @]
      [] OTHER ->
            [node_type_data(n.kids[1]) EXCEPT !.mods = <<n.op>> \o @]

\* util::to_string(type_data): the name a diagnostic prints for a type
precision_string(n) ==
    CASE n = 1 -> "1" [] n = 8 -> "8" [] n = 16 -> "16" [] n = 32 -> "32"
      [] n = 64 -> "64" [] OTHER -> "0"

type_to_string(t) ==
    CASE t.base = "boolean"          -> "bool"
      [] t.base = "integer"          -> "i" \o precision_string(t.precision)
      [] t.base = "unsigned_integer" -> "u" \o precision_string(t.precision)
      [] t.base = "floating_point"   -> "f" \o precision_string(t.precision)
      [] OTHER                       -> t.base

\* static expected_type(expected, got)
expected_type(expected, got) ==
    "Expected type '" \o type_to_string(expected) \o "', got type '"
        \o type_to_string(got) \o "'."

\* errors::type_error: code, the offending node, an optional note
type_error(code, node, note) ==
    [code |-> code, origin |-> "type", kind |-> node.kind, pos |-> node.pos,
     len |-> node.len, note |-> note]

checker_state(table) ==
    [table |-> table, initializing |-> << >>, errs |-> << >>, st |-> "ok",
     type |-> error_type, decl_types |-> << >>]

\* typechecker::report
report(t, node, code, message) ==
    [t EXCEPT !.errs = Append(@, type_error(code, node, message))]

typed(t, type) == [t EXCEPT !.type = type]
not_implemented(t) == [t EXCEPT !.st = "abort"]

\* scope::set: insert_or_assign into m_table
scope_set(table, name, type) ==
    [n \in DOMAIN table \cup {name} |-> IF n = name THEN type ELSE table[n]]

\* typechecker::can_promote
can_promote(from, to) ==
    /\ type_is_builtin(from)
    /\ from.base = to.base
    /\ from.precision <= to.precision

typecheck_binary_ops ==
    { "symbol_plus", "symbol_hyphen", "symbol_star", "symbol_forwardslash",
      "symbol_percent", "symbol_pound", "symbol_caret", "symbol_pipe", "symbol_gtgt",
      "symbol_ltlt", "symbol_gt", "symbol_geq", "symbol_lt", "symbol_leq",
      "symbol_equalequal", "keyword_and", "keyword_or", "keyword_xor" }

RECURSIVE visit(_, _)

\* typechecker::binary_convert
binary_convert(node, t) ==
    LET lhs == visit(node.kids[1], t)
        rhs == visit(node.kids[2], lhs)
    IN  IF lhs.st # "ok" THEN lhs
        ELSE IF rhs.st # "ok" THEN rhs
        ELSE IF can_promote(lhs.type, rhs.type) THEN typed(rhs, rhs.type)
        ELSE IF can_promote(rhs.type, lhs.type) THEN typed(rhs, lhs.type)
        ELSE typed(report(rhs, node, "mismatched_types",
                          "Unable to operate on '" \o type_to_string(lhs.type)
                              \o "' and '" \o type_to_string(rhs.type)
                              \o "'. Can't promote one to the other implicitly!"),
                   error_type)

\* visit(ast::unary &)
visit_unary(node, t) ==
    LET rhs == visit(node.kids[1], t)
    IN  IF node.op \notin {"symbol_at", "symbol_star", "symbol_pound", "symbol_hyphen"}
        THEN not_implemented(t)
        ELSE IF rhs.st # "ok" THEN rhs
        ELSE IF node.op = "symbol_at"
        THEN typed(rhs, [rhs.type EXCEPT !.mods = <<"mut_ptr">> \o @])
        ELSE IF node.op = "symbol_pound"
        THEN typed(rhs, [rhs.type EXCEPT !.mods = <<"mut_ref">> \o @])
        ELSE IF node.op = "symbol_star"
        \* front() != mut_ptr || front() != ptr holds whatever front() is;
        \* front() of an empty deque is undefined: "undefined" marks a visit
        \* that read it, the report being what follows when the read yields
        \* a value
        THEN [report(rhs, node, "dereference_requires_pointer_type",
                     "Expected a pointer type, got type '" \o type_to_string(rhs.type)
                         \o "'")
              EXCEPT !.st = IF rhs.type.mods = << >> THEN "undefined" ELSE "ok"]
        ELSE rhs

\* what a visit of a const or static leaves behind: the type of the
\* initializer and ref.type().data()
visited_decl(ref, initializer_type, data) ==
    [name |-> ref.name, initializer |-> initializer_type, data |-> data]

\* visit(ast::const_decl &) and visit(ast::static_decl &)
visit_const_static(ref, t) ==
    LET init      == visit(ref.kids[1], [t EXCEPT !.initializing = ref.name])
        ref_type  == node_type_data(ref.kids[2])
    IN  IF init.st # "ok" THEN init
        ELSE IF ref_type.base = "implied"
        THEN [init EXCEPT !.table = scope_set(@, ref.name, init.type),
                          !.initializing = << >>,
                          !.decl_types = Append(@, visited_decl(ref, init.type, init.type))]
        ELSE IF type_not_equal(init.type, ref_type)
        THEN [report(init, ref, "mismatched_types", expected_type(ref_type, init.type))
              EXCEPT !.initializing = << >>, !.type = ref_type,
                     !.decl_types = Append(@, visited_decl(ref, init.type, ref_type))]
        ELSE [init EXCEPT !.initializing = << >>, !.type = ref_type,
                          !.decl_types = Append(@, visited_decl(ref, init.type, ref_type))]

visit(node, t) ==
    CASE node.variant \in {"const_decl", "static_decl"} -> visit_const_static(node, t)
      [] node.variant = "export_decl"  -> visit(node.kids[1], t)
      [] node.variant = "type_decl"    -> typed(t, node_type_data(node.kids[1]))
      [] node.variant = "char_literal" -> typed(t, type_data(<< >>, "integer", 8, << >>))
      [] node.variant = "int_literal"  -> typed(t, type_data(<< >>, "integer", 32, << >>))
      [] node.variant = "bool_literal" -> typed(t, type_data(<< >>, "boolean", 1, << >>))
      [] node.variant = "identifier" ->
            IF node.name = t.initializing
            THEN typed(report(t, node, "using_variable_in_initializer", ""), error_type)
            ELSE IF node.name \in DOMAIN t.table THEN typed(t, t.table[node.name])
            ELSE not_implemented(t)
      [] node.variant = "binary" ->
            IF node.op \in typecheck_binary_ops THEN binary_convert(node, t)
            ELSE not_implemented(t)
      [] node.variant = "unary" -> visit_unary(node, t)
      [] OTHER -> not_implemented(t)

\* typechecker::handle_single_declaration: the table after it, or "abort"
RECURSIVE handle_single_declaration(_, _)
handle_single_declaration(decl, t) ==
    IF t.st # "ok" THEN t
    ELSE IF decl.kind \in {"declaration_const", "declaration_static"}
    THEN [t EXCEPT !.table = scope_set(@, decl.name, node_type_data(decl.kids[2]))]
    ELSE IF decl.kind = "declaration_export"
    THEN handle_single_declaration(decl.kids[1], t)
    ELSE IF decl.kind = "declaration_fn"
    THEN [t EXCEPT !.table = scope_set(@, decl.name, node_type_data(decl.kids[2]))]
    ELSE not_implemented(t)

\* typechecker::register_global_symbols
RECURSIVE register_global_symbols(_, _)
register_global_symbols(prog, t) ==
    IF prog = << >> THEN t
    ELSE register_global_symbols(Tail(prog), handle_single_declaration(Head(prog), t))

\* typecheck_program: for (auto &decl : prog.decls()) decl->accept(*this)
RECURSIVE visit_decls(_, _)
visit_decls(prog, t) ==
    IF prog = << >> \/ t.st # "ok" THEN t
    ELSE visit_decls(Tail(prog), visit(Head(prog), t))

typecheck_program(prog, t) ==
    visit_decls(prog, register_global_symbols(prog, [t EXCEPT !.table = << >>]))

\* typechecker::typecheck: each program in turn, m_has_failed carried along
RECURSIVE typecheck(_, _)
typecheck(programs, t) ==
    IF programs = << >> \/ t.st # "ok" THEN t
    ELSE typecheck(Tail(programs), typecheck_program(Head(programs), t))

-----------------------------------------------------------------------------
(* Driver: driver.cc                                                       *)

\* driver::parse(path, source) after core::parse returned:
\* log_errors(std::move(errs), ...) takes the vector by value, so errs is
\* moved from and empty when errs.size() is read for the return value
DriverParse ==
    /\ pc = "parsed"
    /\ logged' = logged \o errs
    /\ errs' = << >>
    /\ parsed' = IF Len(errs') = 0 THEN <<decls>> ELSE << >>
    /\ pc' = "file_done"
    /\ UNCHANGED << source, callvars, lexvars, parsevars, has_failed, m_programs, type_errs,
                    typechecked, exit_code, decl_types >>

\* driver::parse(files): the loop body after parse(file.path(), file.source())
DriverParseFiles ==
    /\ pc = "file_done"
    /\ IF parsed # << >>
       THEN m_programs' = Append(m_programs, parsed[1]) /\ UNCHANGED has_failed
       ELSE has_failed' = TRUE /\ UNCHANGED m_programs
    /\ pc' = "run"
    /\ UNCHANGED << source, callvars, lexvars, errs, parsevars, logged, parsed, type_errs,
                    typechecked, exit_code, decl_types >>

\* driver::run: if (parse(sources.value())) return -2;
DriverRun ==
    /\ pc = "run"
    /\ IF has_failed
       THEN pc' = "exit" /\ exit_code' = -2
       ELSE pc' = "typecheck" /\ UNCHANGED exit_code
    /\ UNCHANGED << source, callvars, lexvars, errs, parsevars, logged, parsed, has_failed,
                    m_programs, type_errs, typechecked, decl_types >>

\* driver::typecheck, and driver::run: if (typecheck()) return -3; return 0;
\* A failed assert ends the process; with assertions compiled out the visit
\* flows off the end of a function that returns a value.
DriverTypecheck ==
    /\ pc = "typecheck"
    /\ LET t == typecheck(m_programs, checker_state(<< >>))
       IN  /\ type_errs' = t.errs
           /\ decl_types' = t.decl_types
           /\ typechecked' = TRUE
           /\ IF t.st \in {"abort", "undefined"}
              THEN pc' \in {"aborted", "undefined"} /\ UNCHANGED exit_code
              ELSE pc' = "exit" /\ exit_code' = IF Len(t.errs) # 0 THEN -3 ELSE 0
    /\ UNCHANGED << source, callvars, lexvars, errs, parsevars, logged, parsed, has_failed,
                    m_programs >>

-----------------------------------------------------------------------------
(* The files the driver is run on                                          *)

MaxSrcLen == 3      \* longest file made of arbitrary bytes
MaxDecls == 3       \* most declarations in a file made of declarations
MaxStmts == 2       \* most statements in the body of a function

\* no routine is called on its own during a run of the driver
no_call == [routine |-> "none"]
not_returned == [returned |-> FALSE]

\* the bytes an arbitrary file is made of
Alphabet == {"a", "1", " ", "\n", "-", "*", "\"", "'", "\\", ";", "=", "0xFF"}

\* `module a;`
ModuleA ==
    <<"m", "o", "d", "u", "l", "e", " ", "a", ";">>

\* `module b;`
ModuleB ==
    <<"m", "o", "d", "u", "l", "e", " ", "b", ";">>

\* `const x = 1;`
ConstOne ==
    <<"c", "o", "n", "s", "t", " ", "x", " ", "=", " ", "1", ";">>

\* `const x: i32 = 3.5;`
ConstFractional ==
    <<"c", "o", "n", "s", "t", " ", "x", ":", " ", "i", "3", "2", " ", "=", " ",
      "3", ".", "5", ";">>

\* `const x = "`: the string literal runs to the end of the file
ConstUnterminated ==
    <<"c", "o", "n", "s", "t", " ", "x", " ", "=", " ", "\"">>

\* `import a;`
ImportA ==
    <<"i", "m", "p", "o", "r", "t", " ", "a", ";">>

\* `fn f(`: a parameter list left open
FnParams ==
    <<"f", "n", " ", "f", "(">>

\* `const y = f(`: an argument list left open
ConstCall ==
    <<"c", "o", "n", "s", "t", " ", "y", " ", "=", " ", "f", "(">>

\* `const z: i64 = x + 1;`
ConstSum ==
    <<"c", "o", "n", "s", "t", " ", "z", ":", " ", "i", "6", "4", " ", "=", " ",
      "x", " ", "+", " ", "1", ";">>

\* `export const w = 'c';`
ExportConst ==
    <<"e", "x", "p", "o", "r", "t", " ", "c", "o", "n", "s", "t", " ", "w", " ",
      "=", " ", "'", "c", "'", ";">>

\* `static` and nothing after it
StaticAlone ==
    <<"s", "t", "a", "t", "i", "c">>

\* an unknown character, a line comment, an empty line and a block comment
CommentText ==
    <<"#", " ", "-", "-", " ", "c", "\n", "\n", "-", "*", " ", "d", " ", "*", "-">>

\* top-level declarations, well-formed and not, a file is put together from
DeclTexts ==
    { ModuleA, ModuleB, ConstOne, ConstFractional, ConstUnterminated, ImportA,
      FnParams, ConstCall, ConstSum, ExportConst, StaticAlone, CommentText }

\* `const y = x;`
ConstAlias ==
    <<"c", "o", "n", "s", "t", " ", "y", " ", "=", " ", "x", ";">>

\* `const x = x + 1;`
ConstSelf ==
    <<"c", "o", "n", "s", "t", " ", "x", " ", "=", " ", "x", " ", "+", " ", "1", ";">>

\* `fn f() { }`
FnEmpty ==
    <<"f", "n", " ", "f", "(", ")", " ", "{", " ", "}">>

\* `const n = 1 != 2;`
ConstNotEqual ==
    <<"c", "o", "n", "s", "t", " ", "n", " ", "=", " ", "1", " ", "!", "=", " ",
      "2", ";">>

\* declarations, well-formed each, a file for the typechecker is put
\* together from
TypedTexts ==
    { ConstOne, ConstAlias, ConstSelf, ConstSum, ExportConst, ModuleA, FnEmpty,
      ConstNotEqual }

\* `let x = 1;`
LetX ==
    <<"l", "e", "t", " ", "x", " ", "=", " ", "1", ";">>

\* `let x = 1`, its `;` left out
LetNoSemi ==
    <<"l", "e", "t", " ", "x", " ", "=", " ", "1">>

\* `let y = 2;`
LetY ==
    <<"l", "e", "t", " ", "y", " ", "=", " ", "2", ";">>

\* `break;`
BreakStmt ==
    <<"b", "r", "e", "a", "k", ";">>

\* `assert x;`
AssertStmt ==
    <<"a", "s", "s", "e", "r", "t", " ", "x", ";">>

\* `f(1);`
CallStmt ==
    <<"f", "(", "1", ")", ";">>

\* `ret x;`
RetStmt ==
    <<"r", "e", "t", " ", "x", ";">>

\* `loop { }`
LoopStmt ==
    <<"l", "o", "o", "p", " ", "{", " ", "}">>

\* `f(`: an argument list left open
CallOpen ==
    <<"f", "(">>

\* statements, well-formed and not, a function body is put together from
StmtTexts ==
    { LetX, LetNoSemi, LetY, BreakStmt, AssertStmt, CallStmt, RetStmt, LoopStmt,
      CallOpen }

\* `fn f() { `
FnOpen ==
    <<"f", "n", " ", "f", "(", ")", " ", "{", " ">>

\* token::kind: the keyword_* enumerators, each with the spelling its comment
\* gives
Keywords ==
    { [spelling |-> <<"c", "o", "n", "s", "t">>, kind |-> "keyword_const"],
      [spelling |-> <<"s", "t", "a", "t", "i", "c">>, kind |-> "keyword_static"],
      [spelling |-> <<"f", "n">>, kind |-> "keyword_fn"],
      [spelling |-> <<"s", "t", "r", "u", "c", "t">>, kind |-> "keyword_struct"],
      [spelling |-> <<"p", "u", "b">>, kind |-> "keyword_pub"],
      [spelling |-> <<"l", "e", "t">>, kind |-> "keyword_let"],
      [spelling |-> <<"m", "u", "t">>, kind |-> "keyword_mut"],
      [spelling |-> <<"l", "o", "o", "p">>, kind |-> "keyword_loop"],
      [spelling |-> <<"w", "h", "i", "l", "e">>, kind |-> "keyword_while"],
      [spelling |-> <<"f", "o", "r">>, kind |-> "keyword_for"],
      [spelling |-> <<"i", "n">>, kind |-> "keyword_in"],
      [spelling |-> <<"b", "r", "e", "a", "k">>, kind |-> "keyword_break"],
      [spelling |-> <<"c", "o", "n", "t", "i", "n", "u", "e">>, kind |-> "keyword_continue"],
      [spelling |-> <<"r", "e", "t">>, kind |-> "keyword_ret"],
      [spelling |-> <<"a", "s", "s", "e", "r", "t">>, kind |-> "keyword_assert"],
      [spelling |-> <<"m", "o", "d", "u", "l", "e">>, kind |-> "keyword_module"],
      [spelling |-> <<"i", "m", "p", "o", "r", "t">>, kind |-> "keyword_import"],
      [spelling |-> <<"a", "s">>, kind |-> "keyword_as"],
      [spelling |-> <<"f", "r", "o", "m">>, kind |-> "keyword_from"],
      [spelling |-> <<"e", "x", "p", "o", "r", "t">>, kind |-> "keyword_export"],
      [spelling |-> <<"i", "f">>, kind |-> "keyword_if"],
      [spelling |-> <<"t", "h", "e", "n">>, kind |-> "keyword_then"],
      [spelling |-> <<"e", "l", "s", "e">>, kind |-> "keyword_else"],
      [spelling |-> <<"a", "n", "d">>, kind |-> "keyword_and"],
      [spelling |-> <<"o", "r">>, kind |-> "keyword_or"],
      [spelling |-> <<"x", "o", "r">>, kind |-> "keyword_xor"],
      [spelling |-> <<"n", "o", "t">>, kind |-> "keyword_not"],
      [spelling |-> <<"c", "l", "o", "n", "e">>, kind |-> "keyword_clone"],
      [spelling |-> <<"t", "y", "p", "e">>, kind |-> "keyword_type"] }

\* `true`, `false`, and words that are no keyword
BoolWords == { <<"t", "r", "u", "e">>, <<"f", "a", "l", "s", "e">> }
OtherWords == { <<"f", "o", "o">>, <<"l", "e", "t", "s">>, <<"_", "x", "1">> }

\* `<<=` and `>>=`
LtLtEqual == <<"<", "<", "=">>
GtGtEqual == <<">", ">", "=">>

\* digits, with a dot and without
NumberTexts == { <<"7">>, <<"1", "2">>, <<"1", ".", "5">>, <<"3", ".", "5">> }

\* `type T = i32;`
TypeAlias ==
    <<"t", "y", "p", "e", " ", "T", " ", "=", " ", "i", "3", "2", ";">>

\* `const c = clone x;`
ConstClone ==
    <<"c", "o", "n", "s", "t", " ", "c", " ", "=", " ", "c", "l", "o", "n", "e",
      " ", "x", ";">>

\* files of one lexeme, and the two declarations that start with or hold
\* the keywords `type` and `clone`
LexemeSources ==
    { w.spelling : w \in Keywords } \cup BoolWords \cup OtherWords
        \cup { LtLtEqual, GtGtEqual } \cup NumberTexts \cup { TypeAlias, ConstClone }

RECURSIVE Join(_)
Join(texts) ==
    IF texts = << >> THEN << >> ELSE Head(texts) \o <<" ">> \o Join(Tail(texts))

SeqsUpTo(S, n) == UNION { [1..k -> S] : k \in 0..n }

ByteSources == SeqsUpTo(Alphabet, MaxSrcLen)

DeclSources == { Join(texts) : texts \in SeqsUpTo(DeclTexts, MaxDecls) }

TypedSources == { Join(texts) : texts \in SeqsUpTo(TypedTexts, MaxDecls) }

\* `fn f() {`, statements, and the closing brace or the end of the file
FnSources ==
    { FnOpen \o Join(texts) \o close :
          texts \in SeqsUpTo(StmtTexts, MaxStmts), close \in { <<"}">>, << >> } }

-----------------------------------------------------------------------------
(* The run of the driver on one file                                       *)

Init ==
    /\ \/ source \in ByteSources
       \/ source \in DeclSources
       \/ source \in FnSources
       \/ source \in TypedSources
       \/ source \in LexemeSources
    /\ pc = "lex"
    /\ m_pos = 0
    /\ m_starting_pos = 0
    /\ tokens = << >>
    /\ errs = << >>
    /\ m_index = 0
    /\ decls = << >>
    /\ has_module = FALSE
    /\ consume_at_end = FALSE
    /\ logged = << >>
    /\ parsed = << >>
    /\ has_failed = FALSE
    /\ m_programs = << >>
    /\ type_errs = << >>
    /\ typechecked = FALSE
    /\ exit_code = "none"
    /\ decl_types = << >>
    /\ call_args = no_call
    /\ call_result = not_returned

Next ==
    \/ LexWhitespace
    \/ LexLineComment
    \/ LexBlockComment
    \/ LexDigits
    \/ LexIdentifier
    \/ LexSingleChar
    \/ LexTwoChar
    \/ LexOneChar
    \/ LexString
    \/ LexChar
    \/ LexUnknown
    \/ LexReturn
    \/ ParseDeclaration
    \/ ParseReturn
    \/ DriverParse
    \/ DriverParseFiles
    \/ DriverRun
    \/ DriverTypecheck

Spec == Init /\ [][Next]_vars


-----------------------------------------------------------------------------
(* Routines called on their own: a call is the routine's name and its      *)
(* arguments, drawn from the values the front end builds, and its result   *)

\* the variables of a run of the driver, which a call leaves alone
runvars == << source, pc, lexvars, errs, parsevars, drivervars >>

\* std::deque<type_modifiers> values
ModifierStacks == { << >>, <<"ptr">>, <<"mut_ref">>, <<"mut_ptr", "ptr">> }

\* the types without modifiers: builtins as finish_type and the literals
\* make them, user defined names, and the implied, void and error types
PlainTypes ==
    { type_data(<< >>, "boolean", 1, << >>) }
        \cup { type_data(<< >>, b, w, << >>) :
                   b \in {"integer", "unsigned_integer"}, w \in {8, 32, 64} }
        \cup { type_data(<< >>, "floating_point", w, << >>) : w \in {32, 64} }
        \cup { type_data(<< >>, "user_defined", 0, n) : n \in { <<"T">>, <<"U">> } }
        \cup { type_data(<< >>, b, 0, << >>) :
                   b \in {"implied", "void_type", "error_type"} }

TypeDatas == { [t EXCEPT !.mods = m] : t \in PlainTypes, m \in ModifierStacks }

\* a == b, b == a and a != b for two type_data values
EqualityCalls ==
    { [routine |-> "operator==", a |-> a, b |-> b] : a, b \in TypeDatas }

\* the types an expression can have
ExpressionTypes ==
    { t \in TypeDatas : t.base \notin {"implied", "void_type", "error_type"} }

\* binary_convert on `l + r` for operands of three types, pair by pair
PromotionCalls ==
    { [routine |-> "binary_convert", a |-> a, b |-> b, c |-> c] :
          a, b, c \in ExpressionTypes }

\* the expression `l + r`, and the scope in which l and r have the types lhs
\* and rhs
operand(name) == identifier([pos |-> 0, len |-> 1], name)
sum_of_operands ==
    binary([pos |-> 0, len |-> 1], "symbol_plus", operand(<<"l">>), operand(<<"r">>))
operand_scope(lhs, rhs) == scope_set(scope_set(<< >>, <<"l">>, lhs), <<"r">>, rhs)

\* binary_convert(node) for a node whose operands have the types lhs and rhs:
\* the type returned and the errors reported
promote(lhs, rhs) ==
    LET t == binary_convert(sum_of_operands, checker_state(operand_scope(lhs, rhs)))
    IN  [type |-> t.type, errs |-> t.errs]

MaxSyncTokens == 4      \* most tokens in front of a call of synchronize()

\* kinds of token: `;`, three at which synchronize() stops, three it skips
SyncTokenKinds ==
    { "symbol_semicolon", "keyword_let", "symbol_closeparen", "symbol_closebrace",
      "identifier", "keyword_const", "symbol_openparen" }

\* a token of each kind, its text left out: token k is at offset k - 1
tokens_of(kinds) == [k \in 1..Len(kinds) |-> token(k - 1, kinds[k], <<"t">>)]

\* synchronize() with m_index anywhere in a token vector
SynchronizeCalls ==
    { [routine |-> "synchronize", toks |-> tokens_of(kinds), from |-> i] :
          kinds \in SeqsUpTo(SyncTokenKinds, MaxSyncTokens), i \in 0..MaxSyncTokens }

\* the spelling the lexer turns into a token of this kind
spelling(kind) ==
    IF \E s \in DOMAIN single_char_symbols : single_char_symbols[s] = kind
    THEN CHOOSE s \in DOMAIN single_char_symbols : single_char_symbols[s] = kind
    ELSE IF \E s \in DOMAIN one_or_two_char_symbols : one_or_two_char_symbols[s] = kind
    THEN CHOOSE s \in DOMAIN one_or_two_char_symbols : one_or_two_char_symbols[s] = kind
    ELSE (CHOOSE w \in Keywords : w.kind = kind).spelling

\* a lexeme: a symbol or keyword of a kind, and an identifier
lexeme(kind) == [kind |-> kind, raw |-> spelling(kind)]
word(name) == [kind |-> "identifier", raw |-> name]

\* the tokens of lexemes written one space apart, the first one at pos
RECURSIVE tokens_at(_, _)
tokens_at(lexemes, pos) ==
    IF lexemes = << >> THEN << >>
    ELSE <<token(pos, Head(lexemes).kind, Head(lexemes).raw)>>
             \o tokens_at(Tail(lexemes), pos + Len(Head(lexemes).raw) + 1)

\* the operators of the binary levels
BinaryOperatorKinds ==
    UNION { binary_kinds(arithmetic_levels[k]) : k \in 1..Len(arithmetic_levels) }
        \cup UNION { binary_kinds(logical_levels[k]) : k \in 1..Len(logical_levels) }

\* `a op1 b op2 c`
PrecedenceTexts ==
    { <<word(<<"a">>), lexeme(op1), word(<<"b">>), lexeme(op2), word(<<"c">>)>> :
          op1, op2 \in BinaryOperatorKinds }

\* `if` in its expression form and in its block form, with and without
\* `else`, at the end of the tokens and in front of a `;`
IfTexts ==
    LET if_a  == <<lexeme("keyword_if"), word(<<"a">>)>>
        then_b == <<lexeme("keyword_then"), word(<<"b">>)>>
        braces == <<lexeme("symbol_openbrace"), lexeme("symbol_closebrace")>>
        else_  == <<lexeme("keyword_else")>>
        semi   == <<lexeme("symbol_semicolon")>>
        heads  == { if_a \o then_b, if_a \o braces }
        tails  == { << >>, else_, else_ \o <<word(<<"c">>)>>, else_ \o braces }
    IN  { h \o t \o e : h \in heads, t \in tails, e \in { << >>, semi } }

\* expressions with and without parentheses, at the end of the tokens and in
\* front of a `;`
GroupTexts ==
    LET open  == <<lexeme("symbol_openparen")>>
        close == <<lexeme("symbol_closeparen")>>
        a     == <<word(<<"a">>)>>
        plus_b == <<lexeme("symbol_plus"), word(<<"b">>)>>
        semi  == <<lexeme("symbol_semicolon")>>
        exprs == { a, a \o plus_b, open \o a \o close, open \o a \o close \o plus_b,
                   open \o a \o plus_b \o close,
                   a \o <<lexeme("symbol_plus")>> \o open \o <<word(<<"b">>)>> \o close,
                   open \o open \o a \o close \o close }
    IN  { x \o e : x \in exprs, e \in { << >>, semi } }

\* statements with `loop`, `while` and `ret`
LoopTexts ==
    LET braces == <<lexeme("symbol_openbrace"), lexeme("symbol_closebrace")>>
        ret_   == <<lexeme("keyword_ret"), lexeme("symbol_semicolon")>>
        body   == <<lexeme("symbol_openbrace")>> \o ret_ \o <<lexeme("symbol_closebrace")>>
    IN  { ret_, <<lexeme("keyword_loop")>> \o braces, <<lexeme("keyword_loop")>> \o body,
          <<lexeme("keyword_while"), word(<<"a">>)>> \o body }

\* declarations of a constant and of a type alias, exported or not
DeclarationTexts ==
    LET const_x == <<lexeme("keyword_const"), word(<<"x">>), lexeme("symbol_equal"),
                     [kind |-> "literal_number", raw |-> <<"1">>],
                     lexeme("symbol_semicolon")>>
        type_T  == <<lexeme("keyword_type"), word(<<"T">>), lexeme("symbol_equal"),
                     word(<<"i","3","2">>), lexeme("symbol_semicolon")>>
        export  == <<lexeme("keyword_export")>>
    IN  { e \o d : e \in { << >>, export, export \o export }, d \in { const_x, type_T } }

\* expression(), statement() and declaration() at the first of the tokens
ExpressionCalls ==
    { [routine |-> "expression", toks |-> tokens_at(text, 0)] :
          text \in PrecedenceTexts \cup IfTexts \cup GroupTexts }
StatementCalls ==
    { [routine |-> "statement", toks |-> tokens_at(text, 0)] :
          text \in IfTexts \cup GroupTexts \cup LoopTexts }
DeclarationCalls ==
    { [routine |-> "declaration", toks |-> tokens_at(text, 0)] : text \in DeclarationTexts }

\* types of literals and of the names declared with them
OperandTypes ==
    { type_data(<< >>, "boolean", 1, << >>), type_data(<< >>, "integer", 8, << >>),
      type_data(<< >>, "integer", 32, << >>), type_data(<< >>, "floating_point", 64, << >>),
      type_data(<<"ptr">>, "integer", 32, << >>),
      type_data(<<"mut_ptr", "ptr">>, "integer", 32, << >>),
      type_data(<<"mut_ref">>, "integer", 32, << >>),
      type_data(<< >>, "user_defined", 0, <<"T">>) }

\* visit(ast::binary &) on `l op r` for every binary operator the parser
\* builds a node for, with l and r of the types a and b
VisitBinaryCalls ==
    { [routine |-> "visit(binary)", op |-> op, a |-> a, b |-> b] :
          op \in BinaryOperatorKinds, a, b \in OperandTypes }

\* visit(ast::unary &) on `op r` for every prefix operator, with r of type a
UnaryOperatorKinds ==
    { "symbol_tilde", "symbol_star", "symbol_pound", "symbol_at", "symbol_plus",
      "symbol_hyphen", "keyword_clone", "keyword_not" }
VisitUnaryCalls ==
    { [routine |-> "visit(unary)", op |-> op, a |-> a] :
          op \in UnaryOperatorKinds, a \in OperandTypes }

\* type annotations as the parser builds them: i8, i32, i64, f64, bool,
\* *i32 and T
AnnotationNodes ==
    LET at == [pos |-> 9, len |-> 3]
    IN  { builtin(at, w, "integer") : w \in {8, 32, 64} }
            \cup { builtin(at, 64, "floating_point"), builtin(at, 1, "boolean"),
                   pointer(at, "ptr", builtin(at, 32, "integer")),
                   user_defined(at, <<"T">>) }

\* visit(ast::const_decl &) and visit(ast::static_decl &) on
\* `const x: annotation = r;` with r of type a
VisitDeclarationCalls ==
    { [routine |-> "visit(const_decl)", keyword |-> k, annotation |-> n, a |-> a] :
          k \in {"const", "static"}, n \in AnnotationNodes, a \in OperandTypes }

\* errors/error_lookup.hh: the enumerators of error_code, in order
ErrorCodes ==
    <<"unknown_char", "unterminated_str", "unterminated_char", "unexpected_tok",
      "unterminated_block_comment", "number_literal_too_large", "unclosed_paren",
      "expected_expression", "unexpected_expression", "expected_semi",
      "expected_else_after_then", "invalid_char_literal", "unmatched_brace",
      "unexpected_end_of_input", "expected_comma", "expected_closing_bracket",
      "expected_opening_brace", "expected_type", "expected_identifier",
      "expected_declaration", "cannot_export_export", "duplicate_module">>

\* errors/error_lookup.cc: the initializer list of the map `errs`
message_entries ==
    << <<"unknown_char", "unknown character">>,
       <<"unterminated_str", "unterminated string literal">>,
       <<"unterminated_char", "unterminated character literal">>,
       <<"unexpected_tok", "unexpected token">>,
       <<"unterminated_str", "unterminated multiline comment">>,
       <<"number_literal_too_large", "number literal too large">>,
       <<"unclosed_paren", "expected closing parentheses">>,
       <<"expected_expression", "expected an expression">>,
       <<"expected_semi", "expected a semicolon">>,
       <<"expected_else_after_then", "expected 'else' in if-then expression">>,
       <<"unexpected_expression", "unexpected expression">>,
       <<"invalid_char_literal", "more than one character in char literal">>,
       <<"unmatched_brace", "expected a matching '}'">>,
       <<"unexpected_end_of_input", "unexpected end of input">>,
       <<"expected_comma", "expected a comma">>,
       <<"expected_closing_bracket", "expected a closing square bracket">>,
       <<"expected_opening_brace", "expected an opening curly brace">>,
       <<"expected_type", "expected a type">>,
       <<"expected_identifier", "expected an identifier">>,
       <<"expected_declaration", "expected a declaration">>,
       <<"duplicate_module", "file already has a module declaration">> >>

\* std::unordered_map built from an initializer list: of the entries with
\* one key the first is inserted and the later ones are not
unordered_map(entries) ==
    [key \in { entries[k][1] : k \in 1..Len(entries) } |->
         entries[CHOOSE k \in 1..Len(entries) :
                     /\ entries[k][1] = key
                     /\ \A j \in 1..(k - 1) : entries[j][1] # key][2]]

\* error_message_from_code: errs[code], which for a key the map does not
\* have is a value-initialized, empty, string_view
error_message_from_code(code) ==
    IF code \in DOMAIN unordered_map(message_entries)
    THEN unordered_map(message_entries)[code] ELSE ""

MessageCalls ==
    { [routine |-> "error_message_from_code", code |-> ErrorCodes[k]] :
          k \in 1..Len(ErrorCodes) }

\* what a visit leaves: how it ended, the type returned, the errors reported
visit_result(t) == [returned |-> TRUE, st |-> t.st, type |-> t.type, errs |-> t.errs]

\* what a call of a parser routine leaves: how it ended, the node it
\* returned, the errors reported and m_index
parse_result(p) ==
    [returned |-> TRUE, st |-> p.st, node |-> p.node, errs |-> p.errs, index |-> p.i]


CallInit ==
    /\ \/ call_args \in EqualityCalls
       \/ call_args \in PromotionCalls
       \/ /\ call_args \in SynchronizeCalls
          /\ call_args.from <= Len(call_args.toks)
       \/ call_args \in ExpressionCalls
       \/ call_args \in StatementCalls
       \/ call_args \in DeclarationCalls
       \/ call_args \in VisitBinaryCalls
       \/ call_args \in VisitUnaryCalls
       \/ call_args \in VisitDeclarationCalls
       \/ call_args \in MessageCalls
    /\ call_result = not_returned
    /\ pc = "call"
    /\ source = << >>
    /\ m_pos = 0
    /\ m_starting_pos = 0
    /\ tokens = << >>
    /\ errs = << >>
    /\ m_index = 0
    /\ decls = << >>
    /\ has_module = FALSE
    /\ consume_at_end = FALSE
    /\ logged = << >>
    /\ parsed = << >>
    /\ has_failed = FALSE
    /\ m_programs = << >>
    /\ type_errs = << >>
    /\ typechecked = FALSE
    /\ exit_code = "none"
    /\ decl_types = << >>

CallTypeEqual ==
    /\ call_result = not_returned
    /\ call_args.routine = "operator=="
    /\ call_result' = [returned  |-> TRUE,
                       equal     |-> type_equal(call_args.a, call_args.b),
                       reversed  |-> type_equal(call_args.b, call_args.a),
                       not_equal |-> type_not_equal(call_args.a, call_args.b)]
    /\ UNCHANGED << call_args, runvars >>

CallBinaryConvert ==
    /\ call_result = not_returned
    /\ call_args.routine = "binary_convert"
    /\ call_result' = [returned |-> TRUE,
                       aa |-> promote(call_args.a, call_args.a),
                       ab |-> promote(call_args.a, call_args.b),
                       bc |-> promote(call_args.b, call_args.c),
                       ac |-> promote(call_args.a, call_args.c)]
    /\ UNCHANGED << call_args, runvars >>

CallSynchronize ==
    /\ call_result = not_returned
    /\ call_args.routine = "synchronize"
    /\ call_result' = [returned |-> TRUE,
                       index |-> synchronize(call_args.toks, call_args.from)]
    /\ UNCHANGED << call_args, runvars >>

CallExpression ==
    /\ call_result = not_returned
    /\ call_args.routine = "expression"
    /\ call_result' = parse_result(expression(call_args.toks, parser_state(0, << >>)))
    /\ UNCHANGED << call_args, runvars >>

CallStatement ==
    /\ call_result = not_returned
    /\ call_args.routine = "statement"
    /\ call_result' = parse_result(statement(call_args.toks, parser_state(0, << >>)))
    /\ UNCHANGED << call_args, runvars >>

CallDeclaration ==
    /\ call_result = not_returned
    /\ call_args.routine = "declaration"
    /\ call_result' = parse_result(declaration(call_args.toks, parser_state(0, << >>)))
    /\ UNCHANGED << call_args, runvars >>

CallVisitBinary ==
    /\ call_result = not_returned
    /\ call_args.routine = "visit(binary)"
    /\ call_result' =
           visit_result(visit(binary([pos |-> 0, len |-> 1], call_args.op,
                                     operand(<<"l">>), operand(<<"r">>)),
                              checker_state(operand_scope(call_args.a, call_args.b))))
    /\ UNCHANGED << call_args, runvars >>

CallVisitUnary ==
    /\ call_result = not_returned
    /\ call_args.routine = "visit(unary)"
    /\ LET t == visit(unary_expr([pos |-> 0, len |-> 1], call_args.op, operand(<<"r">>)),
                      checker_state(scope_set(<< >>, <<"r">>, call_args.a)))
       IN  \* a read of front() on an empty deque yields some value, after
           \* which the visit goes on, or ends the process
           IF t.st = "undefined"
           THEN call_result' \in { visit_result(t), visit_result([t EXCEPT !.st = "ok"]) }
           ELSE call_result' = visit_result(t)
    /\ UNCHANGED << call_args, runvars >>

CallVisitDeclaration ==
    /\ call_result = not_returned
    /\ call_args.routine = "visit(const_decl)"
    /\ LET at   == [pos |-> 0, len |-> 17]
           decl == IF call_args.keyword = "const"
                   THEN const_decl(at, <<"x">>, operand(<<"r">>), call_args.annotation)
                   ELSE static_decl(at, <<"x">>, operand(<<"r">>), call_args.annotation)
           t    == visit(decl, checker_state(scope_set(<< >>, <<"r">>, call_args.a)))
       IN  call_result' = [returned |-> TRUE, st |-> t.st, type |-> t.type,
                           errs |-> t.errs, visited |-> t.decl_types]
    /\ UNCHANGED << call_args, runvars >>

CallErrorMessage ==
    /\ call_result = not_returned
    /\ call_args.routine = "error_message_from_code"
    /\ call_result' = [returned |-> TRUE,
                       message  |-> error_message_from_code(call_args.code)]
    /\ UNCHANGED << call_args, runvars >>

CallNext ==
    \/ CallTypeEqual
    \/ CallBinaryConvert
    \/ CallSynchronize
    \/ CallExpression
    \/ CallStatement
    \/ CallDeclaration
    \/ CallVisitBinary
    \/ CallVisitUnary
    \/ CallVisitDeclaration
    \/ CallErrorMessage

CallSpec == CallInit /\ [][CallNext]_vars
-----------------------------------------------------------------------------
(* What the specification says of the front end, stated over the model     *)

\* the errors reported for the file so far, in the order they were reported
reported == logged \o errs

\* how many elements of a sequence satisfy P
Count(seq, P(_)) == Cardinality({ i \in DOMAIN seq : P(seq[i]) })

\* declarations that lex and parse without an error when alone in a file
WellFormedDecls == { ConstOne, ConstFractional, ConstSum, ExportConst }

\* statements that lex and parse without an error
WellFormedStmts == { LetX, LetY, CallStmt, RetStmt, LoopStmt }

\* C1: lexer::lex returns only after it has scanned the whole input: when
\* the token vector is returned, m_pos is the length of the source, whatever
\* the bytes of the source are
C1_LexScansWholeInput == pc # "lex" => m_pos = Len(source)

\* C2: every token of the vector lex builds has a length of at least 1, and
\* the bytes of the source from its position on, as many as its length, are
\* its raw text
C2_TokenIsItsSourceSlice ==
    \A k \in 1..Len(tokens) :
        /\ tokens[k].len >= 1
        /\ substr(source, tokens[k].pos, tokens[k].len) = tokens[k].raw

\* C2, a case: lex has returned tokens that follow an unknown character, a
\* line comment, an empty line and a block comment
C2_Witness ==
    /\ pc = "parse"
    /\ Len(source) > Len(CommentText)
    /\ SubSeq(source, 1, Len(CommentText)) = CommentText
    /\ errs # << >>
    /\ \E k \in 1..Len(tokens) : tokens[k].pos > Len(CommentText)

\* C3: core::parse terminates on every token sequence: no pass of the
\* declaration loop or of a block's statement loop leaves m_index where it
\* was and goes round again, and none ends the process on a declaration that
\* consumed nothing (`break`, `continue`, `assert` and `import` included)
C3_ParseTerminates ==
    /\ pc # "hung"
    /\ ~(pc \in {"aborted", "undefined"} /\ ~typechecked /\ ~consume_at_end)

\* C4: the parser never consumes a token at an index that is not below the
\* number of tokens: is_at_end() is false at every call of consume(), also
\* when the tokens end inside a block, an argument list or a parameter list
C4_ConsumeWithinTokens == ~consume_at_end

\* C5: once an error of the lexer or the parser has been reported for the
\* file, driver::parse(path, source) returns no program, driver::parse(files)
\* returns true, typecheck is never called and driver::run returns -2
C5_ErrorsStopThePipeline ==
    logged # << >> =>
        /\ pc = "file_done" => parsed = << >>
        /\ pc = "run" => has_failed
        /\ ~typechecked
        /\ pc = "exit" => exit_code = -2

\* files whose only defect is the string literal left open at their end
UnterminatedSources ==
    { Join(Append(texts, ConstUnterminated)) :
          texts \in SeqsUpTo(WellFormedDecls, MaxDecls - 1) }

\* C6: for a file whose only defect is a string literal left unterminated at
\* the end of the input, lexing and parsing report exactly one error, its code
\* is unterminated_str, and no token is a string literal
C6_OneUnterminatedStrError ==
    (pc = "parsed" /\ source \in UnterminatedSources) =>
        /\ Len(errs) = 1
        /\ errs[1].code = "unterminated_str"
        /\ \A k \in 1..Len(tokens) : tokens[k].kind # "literal_string"

\* a function whose body begins with a `let` that lacks its `;`, well-formed
\* statements after it, and the closing brace
MissingSemiSources ==
    { FnOpen \o Join(<<LetNoSemi>> \o rest) \o <<"}">> :
          rest \in SeqsUpTo(WellFormedStmts, MaxStmts - 1) \ { << >> } }

\* `fn f() { let x = 1 let y = 2; }`
TwoLetsSource == FnOpen \o Join(<<LetNoSemi, LetY>>) \o <<"}">>

\* in MissingSemiSources the initializer `1` is token 9: the token that
\* follows the initializer
after_initializer(toks) == toks[10]

\* C7 as stated: when the initializer of a `let` is not followed by `;`,
\* exactly one error is reported for the whole input, its code is
\* expected_semi and it is located at the token that follows the initializer
C7_OnlyExpectedSemi ==
    (pc = "parsed" /\ source \in MissingSemiSources) =>
        /\ Len(errs) = 1
        /\ errs[1].code = "expected_semi"
        /\ errs[1].pos = after_initializer(tokens).pos

\* C7 as amended: when the initializer of a `let` is not followed by `;`,
\* the first error reported is expected_semi, located at the token that
\* follows the initializer; when that token is the `let` of a statement
\* with a one-token initializer and the rest of the input is well-formed
\* (as in `fn f() { let x = 1 let y = 2; }`), it is the only error
C7_FirstExpectedSemi ==
    (pc = "parsed" /\ source \in MissingSemiSources) =>
        /\ errs # << >>
        /\ errs[1].code = "expected_semi"
        /\ errs[1].origin = "token"
        /\ errs[1].pos = after_initializer(tokens).pos
        /\ errs[1].len = after_initializer(tokens).len
        /\ after_initializer(tokens).kind \in {"keyword_let", "keyword_mut"}
               => Len(errs) = 1

\* C7, a case: `fn f() { let x = 1 let y = 2; }` has been parsed, with one
\* error that is located at the second `let`
C7_Witness ==
    /\ pc = "parsed"
    /\ source = TwoLetsSource
    /\ Len(errs) = 1
    /\ errs[1].pos = 19

\* the statements of a block node: its children after the implied type
statements_of(block_node) == Tail(block_node.kids)

\* C8: for `fn f() { let x = 1 let y = 2; }` parse returns a Program with the
\* Fn declaration, whose body holds the two let statements, x and then y
C8_BodyHasBothLets ==
    (pc = "parsed" /\ source = TwoLetsSource) =>
        /\ Len(decls) = 1
        /\ decls[1].variant = "fn"
        /\ Len(statements_of(decls[1].kids[1])) = 2
        /\ statements_of(decls[1].kids[1])[1].variant = "let"
        /\ statements_of(decls[1].kids[1])[1].name = <<"x">>
        /\ statements_of(decls[1].kids[1])[2].variant = "let"
        /\ statements_of(decls[1].kids[1])[2].name = <<"y">>

is_module_text(text) == text \in { ModuleA, ModuleB }
is_module_decl(node) == node.variant = "module_decl"
is_module_token(tok) == tok.kind = "keyword_module"
is_duplicate_module(err) == err.code = "duplicate_module"

\* the positions of the `module` keywords after the first one
later_modules(toks) ==
    { toks[j].pos : j \in { j \in 1..Len(toks) :
          /\ is_module_token(toks[j])
          /\ \E i \in 1..(j - 1) : is_module_token(toks[i]) } }

\* C9: for a file of well-formed declarations of which k >= 1 are module
\* declarations, the Program holds exactly one module declaration, the first
\* of the file, exactly k - 1 errors are reported, all duplicate_module and
\* one at each later module declaration, and every other declaration of the
\* file is in the Program
C9_OneModuleKept ==
    pc = "parsed" =>
        \A texts \in SeqsUpTo(WellFormedDecls \union { ModuleA, ModuleB }, MaxDecls) :
            (source = Join(texts) /\ Count(texts, is_module_text) >= 1) =>
                /\ Count(decls, is_module_decl) = 1
                /\ \A i \in 1..Len(decls) :
                       is_module_decl(decls[i]) =>
                           \A j \in 1..Len(tokens) :
                               is_module_token(tokens[j]) => decls[i].pos <= tokens[j].pos
                /\ Len(errs) = Count(texts, is_module_text) - 1
                /\ Count(errs, is_duplicate_module) = Len(errs)
                /\ { errs[i].pos : i \in 1..Len(errs) } = later_modules(tokens)
                /\ Len(decls) = 1 + Len(texts) - Count(texts, is_module_text)

\* C10: for `const x: i32 = 3.5;` lexing and parsing report no error and
\* typecheck reports exactly one, mismatched_types with the note
\* "Expected type 'i32', got type 'f64'."
C10_FractionalLiteralIsF64 ==
    (pc = "exit" /\ source = Join(<<ConstFractional>>)) =>
        /\ logged = << >>
        /\ Len(type_errs) = 1
        /\ type_errs[1].code = "mismatched_types"
        /\ type_errs[1].note = "Expected type 'i32', got type 'f64'."


\* C11: after typecheck has returned with zero errors reported, no const or
\* static declaration is left with an annotation that is `implied` or
\* `error`, and no initializer was given such a type, in whatever order the
\* declarations of the file are
C11_NoImpliedAfterTypecheck ==
    (pc = "exit" /\ typechecked /\ type_errs = << >>) =>
        \A k \in 1..Len(decl_types) :
            /\ decl_types[k].data.base \notin {"implied", "error_type"}
            /\ decl_types[k].initializer.base \notin {"implied", "error_type"}

\* `const x = x + 1;` alone in a file
SelfReferenceSource == Join(<<ConstSelf>>)

\* C12: a reported type error does not cascade: for `const x = x + 1;` the
\* use of x in its own initializer is the one error reported, and neither
\* the enclosing `+` nor the declaration reports another
C12_ErrorDoesNotCascade ==
    (pc = "exit" /\ source = SelfReferenceSource) =>
        /\ Len(type_errs) = 1
        /\ type_errs[1].code = "using_variable_in_initializer"

\* the payload of a type_data: its precision or its name
payload(t) == <<t.precision, t.name>>

\* C13: a == b holds exactly when either has the base error_type or the
\* modifier sequences, bases and payloads are equal; == is reflexive and
\* symmetric, error == x for every x, and a != b is the negation of a == b
C13_TypeDataEquality ==
    (call_args.routine = "operator==" /\ call_result.returned) =>
        LET a == call_args.a
            b == call_args.b
        IN  /\ call_result.equal <=>
                   \/ a.base = "error_type"
                   \/ b.base = "error_type"
                   \/ (a.mods = b.mods /\ a.base = b.base /\ payload(a) = payload(b))
            /\ a = b => call_result.equal
            /\ call_result.equal <=> call_result.reversed
            /\ (a.base = "error_type" \/ b.base = "error_type") => call_result.equal
            /\ call_result.not_equal <=> ~call_result.equal

\* C13, a case: the error type has been compared, on the right, with a type
\* that differs from it in base and modifiers, and found equal
C13_Witness ==
    /\ call_args.routine = "operator=="
    /\ call_result.returned
    /\ call_args.b.base = "error_type"
    /\ call_args.a.base = "integer"
    /\ call_args.a.mods # call_args.b.mods
    /\ call_result.equal

\* C14: promotion is a partial order over the types an expression can have:
\* promote(x, x) = x with no error reported, and promote(a, c) = c whenever
\* promote(a, b) = b and promote(b, c) = c
C14_PromotionIsPartialOrder ==
    (call_args.routine = "binary_convert" /\ call_result.returned) =>
        /\ call_result.aa.type = call_args.a
        /\ call_result.aa.errs = << >>
        /\ (call_result.ab.type = call_args.b /\ call_result.bc.type = call_args.c)
               => call_result.ac.type = call_args.c

\* C15: the errors of a file reach the logger in source-position order, the
\* lexer's and the parser's taken together: none is logged after an error at
\* a later byte offset
C15_DiagnosticsInPositionOrder ==
    \A i, j \in 1..Len(logged) : i < j => logged[i].pos <= logged[j].pos

\* C16: typechecking never aborts: when parse returned a program with zero
\* errors, typecheck runs to completion and driver::run returns
C16_TypecheckCompletes ==
    (typechecked /\ logged = << >>) => pc = "exit"

\* the tokens are one token of the given kind whose raw text is the file
one_token(kind) ==
    /\ Len(tokens) = 1
    /\ tokens[1].kind = kind
    /\ tokens[1].raw = source

\* C17: the lexer prefers the longest matching symbol: `<<=` and `>>=` each
\* lex to one token, symbol_ltltequal or symbol_gtgtequal, of three
\* characters
C17_LongestSymbolMatch ==
    /\ (pc # "lex" /\ source = LtLtEqual) => one_token("symbol_ltltequal")
    /\ (pc # "lex" /\ source = GtGtEqual) => one_token("symbol_gtgtequal")

\* C18: every keyword of token::kind, spelled as a whole word, lexes to one
\* token of that kind, `true` and `false` to literal_bool, any other word to
\* identifier; `type T = i32;` reaches the type alias rule of the parser and
\* `clone x` its prefix unary rule
C18_KeywordsLexToTheirKind ==
    /\ \A w \in Keywords : (pc # "lex" /\ source = w.spelling) => one_token(w.kind)
    /\ (pc # "lex" /\ source \in BoolWords) => one_token("literal_bool")
    /\ (pc # "lex" /\ source \in OtherWords) => one_token("identifier")
    /\ (pc = "parsed" /\ source = TypeAlias) =>
           (Len(decls) = 1 /\ decls[1].variant = "type_decl")
    /\ (pc = "parsed" /\ source = ConstClone) =>
           /\ Len(decls) = 1
           /\ decls[1].kids[1].variant = "unary"
           /\ decls[1].kids[1].op = "keyword_clone"

\* C19: the kind of a numeric token is decided by the dot: digits with a `.`
\* give the float literal kind, digits alone the integer literal kind
C19_DotDecidesNumberKind ==
    (pc # "lex" /\ source \in NumberTexts) =>
        one_token(IF \E k \in 1..Len(source) : source[k] = "."
                  THEN "literal_float" ELSE "literal_number")

\* how many of the given conditions hold
holding(conditions) == Cardinality({ k \in 1..Len(conditions) : conditions[k] })

\* where synchronize() stands when it has returned: at the end of the tokens,
\* behind a `;` it consumed, in front of a token of the synchronizing set
sync_at_end == call_result.index = Len(call_args.toks)
sync_after_semicolon ==
    /\ call_result.index > call_args.from
    /\ call_args.toks[call_result.index].kind = "symbol_semicolon"
sync_at_stop_token ==
    /\ call_result.index < Len(call_args.toks)
    /\ call_args.toks[call_result.index + 1].kind \in sync_kinds

\* the tokens synchronize() consumed hold none of the synchronizing set, and
\* a `;` only as the last of them
sync_consumed_no_stop_token ==
    \A k \in (call_args.from + 1)..call_result.index :
        /\ call_args.toks[k].kind \notin sync_kinds
        /\ call_args.toks[k].kind = "symbol_semicolon" => k = call_result.index

\* C20 as stated: after synchronize() returns exactly one of these holds: the
\* parser is at the end of the tokens, the last token consumed is a `;`, the
\* current token is of the synchronizing set; and synchronize() consumed no
\* token of the synchronizing set other than `;`
C20_ExactlyOneStopCondition ==
    (call_args.routine = "synchronize" /\ call_result.returned) =>
        /\ holding(<<sync_at_end, sync_after_semicolon, sync_at_stop_token>>) = 1
        /\ sync_consumed_no_stop_token

\* C20 as amended: after synchronize() returns at least one of the three
\* holds, and synchronize() consumed no token of the synchronizing set other
\* than `;`
C20_SomeStopCondition ==
    (call_args.routine = "synchronize" /\ call_result.returned) =>
        /\ holding(<<sync_at_end, sync_after_semicolon, sync_at_stop_token>>) >= 1
        /\ sync_consumed_no_stop_token

\* C20, a case: synchronize() skipped a token, consumed a `;` and returned in
\* front of a token of the synchronizing set
C20_Witness ==
    /\ call_args.routine = "synchronize"
    /\ call_result.returned
    /\ call_result.index > call_args.from + 1
    /\ sync_after_semicolon
    /\ sync_at_stop_token

\* the level of a binary operator in the table of precedences, lowest first:
\* 3 logical or .. 5 logical and, 7 equality .. 14 multiplicative
precedence_level(kind) ==
    CASE kind = "keyword_or" -> 3
      [] kind = "keyword_xor" -> 4
      [] kind = "keyword_and" -> 5
      [] kind \in {"symbol_equalequal", "symbol_bangequal"} -> 7
      [] kind \in {"symbol_lt", "symbol_leq", "symbol_gt", "symbol_geq"} -> 8
      [] kind = "symbol_pipe" -> 9
      [] kind = "symbol_caret" -> 10
      [] kind = "symbol_pound" -> 11
      [] kind \in {"symbol_ltlt", "symbol_gtgt"} -> 12
      [] kind \in {"symbol_plus", "symbol_hyphen"} -> 13
      [] kind \in {"symbol_star", "symbol_forwardslash", "symbol_percent"} -> 14

\* the call parsed `a op1 b op2 c`
is_two_operator_call ==
    /\ call_args.routine = "expression"
    /\ call_result.returned
    /\ Len(call_args.toks) = 5
    /\ call_args.toks[2].kind \in BinaryOperatorKinds
    /\ call_args.toks[4].kind \in BinaryOperatorKinds

\* Binary(op, lhs, rhs) with identifiers or such nodes as operands
is_binary_of(n, op, lhs_ok(_), rhs_ok(_)) ==
    /\ n.variant = "binary"
    /\ n.op = op
    /\ lhs_ok(n.kids[1])
    /\ rhs_ok(n.kids[2])
is_name(n, name) == n.variant = "identifier" /\ n.name = name

\* C21: `a op1 b op2 c` parses to Binary(op2, Binary(op1, a, b), c) when
\* level(op1) >= level(op2) and to Binary(op1, a, Binary(op2, b, c))
\* otherwise, for the operators of the binary levels 3 to 14.
C21_PrecedenceAndLeftAssociativity ==
    is_two_operator_call =>
        LET op1 == call_args.toks[2].kind
            op2 == call_args.toks[4].kind
            n   == call_result.node
        IN  /\ call_result.st = "ok"
            /\ call_result.errs = << >>
            /\ call_result.index = 5
            /\ IF precedence_level(op1) >= precedence_level(op2)
               THEN is_binary_of(n, op2,
                        LAMBDA l : is_binary_of(l, op1, LAMBDA x : is_name(x, <<"a">>),
                                                LAMBDA x : is_name(x, <<"b">>)),
                        LAMBDA r : is_name(r, <<"c">>))
               ELSE is_binary_of(n, op1,
                        LAMBDA l : is_name(l, <<"a">>),
                        LAMBDA r : is_binary_of(r, op2, LAMBDA x : is_name(x, <<"b">>),
                                                LAMBDA x : is_name(x, <<"c">>)))

\* `a + b * c` and `a * b + c` were parsed
C21_Witness ==
    /\ is_two_operator_call
    /\ call_args.toks[2].kind = "symbol_plus"
    /\ call_args.toks[4].kind = "symbol_star"
    /\ call_result.node.op = "symbol_plus"
    /\ call_result.node.kids[2].variant = "binary"

\* the codes of the errors a call reported, in order
codes(es) == [k \in 1..Len(es) |-> es[k].code]

\* the call parsed `if a then b` or `if a { }` and what follows it
is_if_call ==
    /\ call_args.routine \in {"expression", "statement"}
    /\ call_result.returned
    /\ Len(call_args.toks) >= 4
    /\ call_args.toks[1].kind = "keyword_if"
is_then_form  == is_if_call /\ call_args.toks[3].kind = "keyword_then"
is_block_form == is_if_call /\ call_args.toks[3].kind = "symbol_openbrace"

\* the kind of the token after the true clause, "end" when there is none
after_true_clause ==
    IF Len(call_args.toks) >= 5 THEN call_args.toks[5].kind ELSE "end"

\* the block form: without `else` no error, and what follows an `else` is a
\* block or an error
block_form_rules ==
    /\ is_block_form /\ after_true_clause \notin {"keyword_else", "end"} =>
           call_result.st = "ok" /\ call_result.errs = << >>
    /\ is_block_form /\ after_true_clause = "keyword_else" =>
           IF Len(call_args.toks) >= 6 /\ call_args.toks[6].kind = "symbol_openbrace"
           THEN call_result.errs = << >> =>
                    /\ call_result.st = "ok"
                    /\ \E n \in {call_result.node, call_result.node.kids[1]} :
                           /\ n.variant = "if_else"
                           /\ Len(n.kids) = 3
                           /\ n.kids[3].variant = "block"
           ELSE call_result.errs # << >>

\* C22 as claimed: `if cond then expr` without `else` is always reported as
\* expected_else_after_then, also at the end of the tokens; `if cond block`
\* without `else` is accepted, and an `else` after a block is followed by a
\* block.
C22_ThenAlwaysNeedsElse ==
    /\ is_then_form /\ after_true_clause # "keyword_else" =>
           codes(call_result.errs) = <<"expected_else_after_then">>
    /\ block_form_rules

\* C22: `if cond then expr` followed by a token that is not `else` is
\* reported as expected_else_after_then, and at the end of the tokens as
\* unexpected_end_of_input; `if cond block` followed by a token that is not
\* `else` is accepted, and an `else` after a block is followed by a block.
C22_ThenNeedsElseBeforeAToken ==
    /\ is_then_form /\ after_true_clause \notin {"keyword_else", "end"} =>
           codes(call_result.errs) = <<"expected_else_after_then">>
    /\ is_then_form /\ after_true_clause = "end" =>
           codes(call_result.errs) = <<"unexpected_end_of_input">>
    /\ block_form_rules

\* `if a then b ;` was parsed and the missing `else` reported
C22_Witness ==
    /\ is_then_form
    /\ after_true_clause = "symbol_semicolon"
    /\ call_result.st = "throw"
    /\ codes(call_result.errs) = <<"expected_else_after_then">>

\* a parser routine returned a node for the tokens it was called on
has_parsed ==
    /\ call_args.routine \in {"expression", "statement"}
    /\ call_result.returned
    /\ call_result.st = "ok"

\* the range from the first token to the last token the call consumed
consumed_range ==
    srcinfo_from(info(call_args.toks[1]), info(call_args.toks[call_result.index]))

\* C23: the node a parser non-terminal returns carries a SourceInfo spanning
\* from the first to the last token the non-terminal consumed, the
\* parentheses of a parenthesized expression included.
C23_NodeSpansItsTokens ==
    has_parsed => info(call_result.node) = consumed_range

\* the nodes of a tree
RECURSIVE nodes_of(_)
nodes_of(n) == {n} \cup UNION { nodes_of(n.kids[k]) : k \in 1..Len(n.kids) }

\* a parser routine returned, with or without a node
parser_returned ==
    /\ call_args.routine \in {"expression", "statement", "declaration"}
    /\ call_result.returned

\* the call parsed `export type T = i32;`
is_export_type_call ==
    /\ parser_returned
    /\ Len(call_args.toks) = 6
    /\ call_args.toks[1].kind = "keyword_export"
    /\ call_args.toks[2].kind = "keyword_type"

\* C24: a node's kind tag identifies its variant, distinct variants having
\* distinct tags (loop and ret, type alias and export), so that
\* `export type T = i32;` is not rejected as an export of an export.
C24_KindIdentifiesVariant ==
    /\ parser_returned =>
           \A n, m \in nodes_of(call_result.node) :
               n.variant # m.variant => n.kind # m.kind
    /\ is_export_type_call =>
           /\ call_result.st = "ok"
           /\ call_result.errs = << >>
           /\ call_result.node.variant = "export_decl"

\* binary_convert was called on operands of the types a and b
is_promotion_call == call_args.routine = "binary_convert" /\ call_result.returned

\* what binary_convert does when it cannot promote: one mismatched_types
\* error and the error type
is_mismatch(r) == codes(r.errs) = <<"mismatched_types">> /\ r.type = error_type

NumericBases == {"integer", "unsigned_integer", "floating_point"}

\* C25: two different operand types are promoted only when they have the
\* same numeric base and the same modifier stack, to the wider one;
\* binary_convert reports mismatched_types and returns the error type when
\* the bases differ and when the modifier stacks differ (`*i8` with `i32`).
C25_PromotionNeedsSameBaseAndModifiers ==
    is_promotion_call =>
        LET a == call_args.a
            b == call_args.b
            r == call_result.ab
        IN  /\ (r.errs = << >> /\ a # b) =>
                   /\ a.base = b.base
                   /\ a.base \in NumericBases
                   /\ a.mods = b.mods
                   /\ r.type = IF a.precision >= b.precision THEN a ELSE b
            /\ a.base # b.base => is_mismatch(r)
            /\ a.mods # b.mods => is_mismatch(r)

\* visit(ast::binary &) was called on `l op r`
is_binary_visit == call_args.routine = "visit(binary)" /\ call_result.returned

ComparisonKinds ==
    { "symbol_equalequal", "symbol_bangequal", "symbol_lt", "symbol_leq", "symbol_gt",
      "symbol_geq" }
LogicalKinds == { "keyword_and", "keyword_or", "keyword_xor" }

\* the operands promote to a common type: same builtin base and modifiers
operands_promote ==
    /\ call_args.a.base = call_args.b.base
    /\ call_args.a.mods = call_args.b.mods
    /\ call_args.a.base \in NumericBases \cup {"boolean"}

wider_operand ==
    IF call_args.a.precision >= call_args.b.precision THEN call_args.a ELSE call_args.b

\* C26: a binary expression with a comparison or a logical operator has the
\* type bool whenever its operands promote to a common type; with an
\* arithmetic, bitwise or shift operator it has the promoted operand type.
C26_ComparisonAndLogicalYieldBool ==
    is_binary_visit /\ operands_promote =>
        /\ call_result.st = "ok"
        /\ call_result.errs = << >>
        /\ call_result.type =
               IF call_args.op \in ComparisonKinds \cup LogicalKinds
               THEN type_data(<< >>, "boolean", 1, << >>)
               ELSE wider_operand

\* visit(ast::unary &) was called on `*r`
is_dereference_visit ==
    /\ call_args.routine = "visit(unary)"
    /\ call_args.op = "symbol_star"
    /\ call_result.returned

\* the outermost modifier of the operand's type is ptr or mut_ptr
operand_is_pointer ==
    call_args.a.mods # << >> /\ Head(call_args.a.mods) \in {"ptr", "mut_ptr"}

\* C27: `*x` on an x whose outermost modifier is ptr or mut_ptr reports no
\* error and has x's type without that modifier; on any other x, one
\* without modifiers included, dereference_requires_pointer_type is reported.
C27_DereferenceStripsPointer ==
    is_dereference_visit =>
        IF operand_is_pointer
        THEN /\ call_result.st = "ok"
             /\ call_result.errs = << >>
             /\ call_result.type = [call_args.a EXCEPT !.mods = Tail(@)]
        ELSE /\ call_result.st = "ok"
             /\ codes(call_result.errs) = <<"dereference_requires_pointer_type">>

\* visit(const_decl) or visit(static_decl) was called on a declaration with
\* an explicit annotation
is_declaration_visit ==
    /\ call_args.routine = "visit(const_decl)"
    /\ call_result.returned
    /\ call_args.annotation.variant # "implied"

\* the initializer's type can be promoted to the annotation: the same numeric
\* base and modifiers, and a width that does not shrink
promotes_to(from, to) ==
    /\ from.base = to.base
    /\ from.base \in NumericBases
    /\ from.mods = to.mods
    /\ from.precision <= to.precision

\* C28: for a const or static declaration with an explicit annotation,
\* mismatched_types is reported exactly when the initializer's type neither
\* equals the annotation nor can be promoted to it (`const x: i64 = 5;` is
\* accepted), and the annotation is left unchanged.
C28_AnnotationAcceptsPromotion ==
    is_declaration_visit =>
        LET annotation == node_type_data(call_args.annotation)
            accepted   == \/ call_args.a = annotation
                          \/ promotes_to(call_args.a, annotation)
        IN  /\ call_result.st = "ok"
            /\ codes(call_result.errs) =
                   IF accepted THEN << >> ELSE <<"mismatched_types">>
            /\ Len(call_result.visited) = 1
            /\ call_result.visited[1].data = annotation
            /\ call_result.type = annotation

\* error_message_from_code was called on a value of error_code
is_message_call ==
    call_args.routine = "error_message_from_code" /\ call_result.returned

\* C29: every value of error_code maps to exactly one non-empty message:
\* error_message_from_code never returns the empty string, and no two
\* entries of the message table are keyed by the same code.
C29_EveryCodeHasOneMessage ==
    is_message_call =>
        /\ call_result.message # ""
        /\ \A i, j \in 1..Len(message_entries) :
               i # j => message_entries[i][1] # message_entries[j][1]

\* the bytes [pos, pos + len) of two lexemes have none in common
apart(x, y) == x.pos + x.len <= y.pos \/ y.pos + y.len <= x.pos

\* a char or string literal token has both its delimiters
is_terminated(tok) ==
    /\ Len(tok.raw) >= 2
    /\ tok.raw[Len(tok.raw)] = tok.raw[1]

\* C30: the token vector of lex holds no token of kind unknown or error and
\* no token for a lexeme reported as an error (unknown byte, unterminated
\* literal or block comment, digits abutting letters), each such lexeme
\* being reported once.
C30_NoTokenForReportedLexeme ==
    pc = "lex" =>
        /\ \A k \in 1..Len(tokens) :
               /\ tokens[k].kind \notin {"unknown", "error"}
               /\ \A e \in 1..Len(errs) : apart(tokens[k], errs[e])
               /\ tokens[k].kind \in {"literal_char", "literal_string"} =>
                      is_terminated(tokens[k])
               /\ isdigit(tokens[k].raw[1]) => tokens[k].kind = "literal_number"
        /\ \A e, f \in 1..Len(errs) : e # f => apart(errs[e], errs[f])

\* lex is about to return tokens, having reported an unknown byte and an
\* unterminated literal
C30_Witness ==
    /\ pc = "lex"
    /\ is_at_end(source, m_pos)
    /\ tokens # << >>
    /\ \E e \in 1..Len(errs) : errs[e].code = "unknown_char"
    /\ \E e \in 1..Len(errs) : errs[e].code \in {"unterminated_char", "unterminated_str"}
=============================================================================
